---- MODULE Spec2Model ----
(***************************************************************************)
(* Model of backend/server.js: the seven profile resolvers                *)
(* GET /api/{github,twitter,instagram,linkedin,reddit,tiktok,spotify}/:u.  *)
(*                                                                         *)
(* A username is a sequence of one-character strings, so that the string   *)
(* operations of the handlers (toLowerCase, replace(/\s+/g,''), includes,  *)
(* match(/\d{3,}/), split, the edit distance) are computed, not assumed.   *)
(* A JSON body is a record; a field the code does not write is absent from *)
(* the record's DOMAIN, and the JSON value null is the record JsonNull.    *)
(***************************************************************************)
EXTENDS Integers, Sequences, FiniteSets, TLC

VARIABLES
    pc,         \* pc[q]: where handler q stands: "idle", "live", "repos", "done"
    platform,   \* platform[q]: the route the query came in on
    reqUsername, \* reqUsername[q]: req.params.username, as received
    requests,   \* requests[q]: the axios requests issued so far, in order, each
                \* with what it settled with
    path,       \* path[q]: the resolution states the handler went through
    sent,       \* sent[q]: the responses written with res.json / res.status
    locals,     \* locals[q]: what the suspended handler holds across an await
    s1, s2,     \* the two strings handed to the edit distance
    distance    \* distance[<<x, y>>]: the values compareDistance returned

vars == <<pc, platform, reqUsername, requests, path, sent, locals, s1, s2, distance>>
serverVars == <<pc, platform, reqUsername, requests, path, sent, locals>>
matcherVars == <<s1, s2, distance>>

----------------------------------------------------------------------------
(* Bounds of the model.                                                    *)

\* Longest string handed to the edit distance in SpecMatcher.
MaxLen == 3

\* Math.random() returns one of the fractions 0/R, 1/R, ..., (R-1)/R, where
\* R is RandomResolution; a handler run reads its draws from one random
\* source, see RandomSources.
RandomResolution == 5

----------------------------------------------------------------------------
(* Strings.                                                                *)

UpperCase == <<"A", "B", "C", "D", "E", "F", "G", "H", "I", "J", "K", "L", "M",
               "N", "O", "P", "Q", "R", "S", "T", "U", "V", "W", "X", "Y", "Z">>
LowerCase == <<"a", "b", "c", "d", "e", "f", "g", "h", "i", "j", "k", "l", "m",
               "n", "o", "p", "q", "r", "s", "t", "u", "v", "w", "x", "y", "z">>
Digits == {"0", "1", "2", "3", "4", "5", "6", "7", "8", "9"}

\* The members of the regular-expression class \s that the model's inputs use.
Whitespace == {" ", "\t"}

\* The separators of /[-_\s]/ (artist name) and of /[-_]/ (listener name).
ArtistSeparators == {"-", "_"} \cup Whitespace
ListenerSeparators == {"-", "_"}

toLowerCaseChar(c) ==
    IF \E i \in 1..26 : UpperCase[i] = c
    THEN LowerCase[CHOOSE i \in 1..26 : UpperCase[i] = c]
    ELSE c

toUpperCaseChar(c) ==
    IF \E i \in 1..26 : LowerCase[i] = c
    THEN UpperCase[CHOOSE i \in 1..26 : LowerCase[i] = c]
    ELSE c

\* String.prototype.toLowerCase
toLowerCase(s) == [i \in 1..Len(s) |-> toLowerCaseChar(s[i])]

IsWhitespace(c) == c \in Whitespace
IsNotWhitespace(c) == c \notin Whitespace

\* s.replace(/\s+/g, '')
removeWhitespace(s) == SelectSeq(s, IsNotWhitespace)

\* String.prototype.includes
includes(s, sub) ==
    \E i \in 1..(Len(s) - Len(sub) + 1) : SubSeq(s, i, i + Len(sub) - 1) = sub

\* s.match(/\d{3,}/) is not null
matchesThreeDigits(s) ==
    \E i \in 1..(Len(s) - 2) : \A k \in i..(i + 2) : s[k] \in Digits

\* Array.prototype.includes on a list of names
listIncludes(list, s) == \E i \in 1..Len(list) : list[i] = s

\* s.split(<one separator character>): the words between separators, empty
\* words included.
RECURSIVE splitFrom(_, _, _, _)
splitFrom(s, seps, i, word) ==
    IF i > Len(s) THEN <<word>>
    ELSE IF s[i] \in seps THEN <<word>> \o splitFrom(s, seps, i + 1, <<>>)
    ELSE splitFrom(s, seps, i + 1, Append(word, s[i]))

split(s, seps) == splitFrom(s, seps, 1, <<>>)

\* word.charAt(0).toUpperCase() + word.slice(1).toLowerCase()
capitalize(word) ==
    IF word = <<>> THEN <<>>
    ELSE <<toUpperCaseChar(word[1])>> \o toLowerCase(Tail(word))

\* words.join(' ')
RECURSIVE join(_)
join(words) ==
    IF Len(words) = 0 THEN <<>>
    ELSE IF Len(words) = 1 THEN words[1]
    ELSE words[1] \o <<" ">> \o join(Tail(words))

\* username.split(sep).map(capitalize).join(' ')
formatName(s, seps) ==
    LET words == split(s, seps)
    IN join([i \in 1..Len(words) |-> capitalize(words[i])])

----------------------------------------------------------------------------
(* The random source.                                                      *)

\* One run of a handler calls Math.random() a number of times; the k-th call
\* (k = 0, 1, ...) of a run that reads source src returns
\* random(src, k) / RandomResolution.  A source is an arithmetic progression
\* modulo the resolution: stride 0 repeats one value for ever (every draw of
\* the run equal), the other strides run through the values.
RandomSources == [seed : 0..(RandomResolution - 1), stride : 0..(RandomResolution - 1)]

random(src, k) == (src.seed + k * src.stride) % RandomResolution

\* Math.floor(Math.random() * n), for the k-th draw of the run
floorRandom(src, k, n) == (random(src, k) * n) \div RandomResolution

\* Math.random() > 0.5, for the k-th draw of the run
randomAboveHalf(src, k) == 2 * random(src, k) > RandomResolution

----------------------------------------------------------------------------
(* JSON values.                                                            *)

JsonNull == [isNull |-> TRUE]

----------------------------------------------------------------------------
(* The curated dataset of the Spotify resolver.                            *)

\* Object.keys(knownProfiles), in insertion order (server.js 419-627).
knownProfileKeys ==
    << <<"d", "r", "a", "k", "e">>,
       <<"a", "d", "e", "l", "e">>,
       <<"j", "u", "s", "t", "i", "n", "b", "i", "e", "b", "e", "r">>,
       <<"s", "p", "o", "t", "i", "f", "y", "c", "h", "a", "r", "t", "s">>,
       <<"s", "p", "o", "t", "i", "f", "y", "m", "a", "p", "s">>,
       <<"w", "e", "e", "k", "n", "d">>,
       <<"t", "h", "e", "w", "e", "e", "k", "n", "d">>,
       <<"b", "e", "y", "o", "n", "c", "e">>,
       <<"b", "a", "d", "p", "a", "d", "d", "y">>,
       <<"s", "p", "o", "t", "i", "f", "y">>,
       <<"b", "t", "s">> >>

\* The curated records; name is a character sequence, other texts are strings
\* (a character outside ASCII is written as its \\uXXXX escape).
knownProfiles(key) ==
    CASE key = <<"d", "r", "a", "k", "e">> ->
          [ name |-> <<"D", "r", "a", "k", "e">>,
            followers |-> 67438211,
            popularity |-> 96,
            monthly_listeners |-> 63829401,
            image_url |-> "https://i.scdn.co/image/ab6761610000e5eb4293385d324db8558179afd9",
            type |-> "artist",
            genres |-> <<"canadian hip hop", "canadian pop", "hip hop", "pop rap", "rap">>,
            top_tracks |-> <<
                [name |-> "One Dance", popularity |-> 98, album |-> "Views", release_date |-> "2016-04-29", duration_ms |-> 173987],
                [name |-> "God's Plan", popularity |-> 96, album |-> "Scorpion", release_date |-> "2018-06-29", duration_ms |-> 198973],
                [name |-> "Hotline Bling", popularity |-> 95, album |-> "Views", release_date |-> "2016-04-29", duration_ms |-> 267266],
                [name |-> "In My Feelings", popularity |-> 94, album |-> "Scorpion", release_date |-> "2018-06-29", duration_ms |-> 217925],
                [name |-> "Nice For What", popularity |-> 93, album |-> "Scorpion", release_date |-> "2018-06-29", duration_ms |-> 210853] >>,
            albums |-> <<
                [name |-> "Certified Lover Boy", release_date |-> "2021-09-03", total_tracks |-> 21, image_url |-> "https://i.scdn.co/image/ab67616d0000b2739416ed64daf84936d89e671c"],
                [name |-> "Scorpion", release_date |-> "2018-06-29", total_tracks |-> 25, image_url |-> "https://i.scdn.co/image/ab67616d0000b273f907de96b9a4fbc04accc0d5"],
                [name |-> "Views", release_date |-> "2016-04-29", total_tracks |-> 20, image_url |-> "https://i.scdn.co/image/ab67616d0000b273b20cfc2872b8ad0515b1b191"] >> ]
      [] key = <<"a", "d", "e", "l", "e">> ->
          [ name |-> <<"A", "d", "e", "l", "e">>,
            followers |-> 49523685,
            popularity |-> 94,
            monthly_listeners |-> 55841263,
            image_url |-> "https://i.scdn.co/image/ab6761610000e5eb68f6e5892075d7f22615bd17",
            type |-> "artist",
            genres |-> <<"british soul", "pop", "pop soul", "uk pop">>,
            top_tracks |-> <<
                [name |-> "Hello", popularity |-> 98, album |-> "25", release_date |-> "2015-11-20", duration_ms |-> 295493],
                [name |-> "Rolling in the Deep", popularity |-> 97, album |-> "21", release_date |-> "2011-01-24", duration_ms |-> 228280],
                [name |-> "Someone Like You", popularity |-> 96, album |-> "21", release_date |-> "2011-01-24", duration_ms |-> 285240],
                [name |-> "Easy On Me", popularity |-> 95, album |-> "30", release_date |-> "2021-11-19", duration_ms |-> 224856],
                [name |-> "Set Fire to the Rain", popularity |-> 94, album |-> "21", release_date |-> "2011-01-24", duration_ms |-> 223773] >>,
            albums |-> <<
                [name |-> "30", release_date |-> "2021-11-19", total_tracks |-> 12, image_url |-> "https://i.scdn.co/image/ab67616d0000b273c6b577e4c4a6d126d5753a7b"],
                [name |-> "25", release_date |-> "2015-11-20", total_tracks |-> 11, image_url |-> "https://i.scdn.co/image/ab67616d0000b2736a6387ab37f64034cdc7b367"],
                [name |-> "21", release_date |-> "2011-01-24", total_tracks |-> 11, image_url |-> "https://i.scdn.co/image/ab67616d0000b2732118bf9b198b05a95ded6300"] >> ]
      [] key = <<"j", "u", "s", "t", "i", "n", "b", "i", "e", "b", "e", "r">> ->
          [ name |-> <<"J", "u", "s", "t", "i", "n", " ", "B", "i", "e", "b", "e", "r">>,
            followers |-> 42895631,
            popularity |-> 93,
            monthly_listeners |-> 71452369,
            image_url |-> "https://i.scdn.co/image/ab6761610000e5eb8ae7f2aaa9817a704a87ea36",
            type |-> "artist",
            genres |-> <<"canadian pop", "dance pop", "pop", "post-teen pop">>,
            top_tracks |-> <<
                [name |-> "Sorry", popularity |-> 96, album |-> "Purpose", release_date |-> "2015-11-13", duration_ms |-> 200787],
                [name |-> "Love Yourself", popularity |-> 95, album |-> "Purpose", release_date |-> "2015-11-13", duration_ms |-> 233720],
                [name |-> "What Do You Mean?", popularity |-> 94, album |-> "Purpose", release_date |-> "2015-11-13", duration_ms |-> 205240],
                [name |-> "Stay", popularity |-> 93, album |-> "Justice", release_date |-> "2021-03-19", duration_ms |-> 141806],
                [name |-> "Peaches", popularity |-> 92, album |-> "Justice", release_date |-> "2021-03-19", duration_ms |-> 198082] >>,
            albums |-> <<
                [name |-> "Justice", release_date |-> "2021-03-19", total_tracks |-> 16, image_url |-> "https://i.scdn.co/image/ab67616d0000b273e6f407c7f3a0ec98845e4431"],
                [name |-> "Changes", release_date |-> "2020-02-14", total_tracks |-> 17, image_url |-> "https://i.scdn.co/image/ab67616d0000b273849472121f6cd237cf546af4"],
                [name |-> "Purpose", release_date |-> "2015-11-13", total_tracks |-> 18, image_url |-> "https://i.scdn.co/image/ab67616d0000b273f46542b2146bc13068d11a12"] >> ]
      [] key = <<"s", "p", "o", "t", "i", "f", "y", "c", "h", "a", "r", "t", "s">> ->
          [ name |-> <<"S", "p", "o", "t", "i", "f", "y", " ", "C", "h", "a", "r", "t", "s">>,
            followers |-> 5432167,
            popularity |-> 90,
            type |-> "account",
            verified |-> TRUE,
            image_url |-> "https://charts-images.scdn.co/assets/locale_en/regional/daily/region_global_default.jpg",
            playlists |-> <<
                [name |-> "Today's Top Hits", followers |-> 33421567, total_tracks |-> 50, image_url |-> "https://i.scdn.co/image/ab67706c0000da842fecd7a8f9434cceade0a313"],
                [name |-> "Global Top 50", followers |-> 28743291, total_tracks |-> 50, image_url |-> "https://charts-images.scdn.co/assets/locale_en/regional/daily/region_global_default.jpg"],
                [name |-> "Viral 50 - Global", followers |-> 12453789, total_tracks |-> 50, image_url |-> "https://charts-images.scdn.co/assets/locale_en/viral/daily/region_global_default.jpg"] >> ]
      [] key = <<"s", "p", "o", "t", "i", "f", "y", "m", "a", "p", "s">> ->
          [ name |-> <<"S", "p", "o", "t", "i", "f", "y", " ", "M", "a", "p", "s">>,
            followers |-> 3214576,
            popularity |-> 82,
            type |-> "account",
            verified |-> TRUE,
            image_url |-> "https://mosaic.scdn.co/640/ab67616d0000b2731dacfbc31cc873d132958af9ab67616d0000b273838fa502b0d9e6c2cd838fbcab67616d0000b273d58e353826fe4e468533789fab67616d0000b273ef74b53ad3e57f2ab40a4cae",
            playlists |-> <<
                [name |-> "Sound of New York City", followers |-> 2187653, total_tracks |-> 100, image_url |-> "https://i.scdn.co/image/ab67706c0000da84c4af81235e799ccfbe011e1a"],
                [name |-> "Sound of London", followers |-> 1853421, total_tracks |-> 100, image_url |-> "https://i.scdn.co/image/ab67706c0000da844fed56bdb3e2e88e134f990a"],
                [name |-> "Sound of Tokyo", followers |-> 1765289, total_tracks |-> 100, image_url |-> "https://i.scdn.co/image/ab67706c0000da841bbd99c7c7de409ba22e3936"] >> ]
      [] key = <<"w", "e", "e", "k", "n", "d">> ->
          [ name |-> <<"T", "h", "e", " ", "W", "e", "e", "k", "n", "d">>,
            followers |-> 47561234,
            popularity |-> 96,
            monthly_listeners |-> 76123456,
            image_url |-> "https://i.scdn.co/image/ab6761610000e5eb214f3cf1cbe7139c1e26ffbb",
            type |-> "artist",
            genres |-> <<"canadian contemporary r&b", "canadian pop", "pop", "r&b">>,
            top_tracks |-> <<
                [name |-> "Blinding Lights", popularity |-> 99, album |-> "After Hours", release_date |-> "2020-03-20", duration_ms |-> 200040],
                [name |-> "Starboy", popularity |-> 97, album |-> "Starboy", release_date |-> "2016-11-25", duration_ms |-> 230453],
                [name |-> "Save Your Tears", popularity |-> 96, album |-> "After Hours", release_date |-> "2020-03-20", duration_ms |-> 215947],
                [name |-> "The Hills", popularity |-> 95, album |-> "Beauty Behind the Madness", release_date |-> "2015-08-28", duration_ms |-> 242253],
                [name |-> "Earned It", popularity |-> 94, album |-> "Beauty Behind the Madness", release_date |-> "2015-08-28", duration_ms |-> 277680] >>,
            albums |-> <<
                [name |-> "Dawn FM", release_date |-> "2022-01-07", total_tracks |-> 16, image_url |-> "https://i.scdn.co/image/ab67616d0000b273c6af5ffa661a365b72cf542d"],
                [name |-> "After Hours", release_date |-> "2020-03-20", total_tracks |-> 14, image_url |-> "https://i.scdn.co/image/ab67616d0000b2738863bc11d2aa12b54f5aeb36"],
                [name |-> "Starboy", release_date |-> "2016-11-25", total_tracks |-> 18, image_url |-> "https://i.scdn.co/image/ab67616d0000b273a048415db06a5b6fa7ec4e1a"] >> ]
      [] key = <<"t", "h", "e", "w", "e", "e", "k", "n", "d">> ->
          [ name |-> <<"T", "h", "e", " ", "W", "e", "e", "k", "n", "d">>,
            followers |-> 47561234,
            popularity |-> 96,
            monthly_listeners |-> 76123456,
            image_url |-> "https://i.scdn.co/image/ab6761610000e5eb214f3cf1cbe7139c1e26ffbb",
            type |-> "artist",
            genres |-> <<"canadian contemporary r&b", "canadian pop", "pop", "r&b">>,
            top_tracks |-> <<
                [name |-> "Blinding Lights", popularity |-> 99, album |-> "After Hours", release_date |-> "2020-03-20", duration_ms |-> 200040],
                [name |-> "Starboy", popularity |-> 97, album |-> "Starboy", release_date |-> "2016-11-25", duration_ms |-> 230453],
                [name |-> "Save Your Tears", popularity |-> 96, album |-> "After Hours", release_date |-> "2020-03-20", duration_ms |-> 215947],
                [name |-> "The Hills", popularity |-> 95, album |-> "Beauty Behind the Madness", release_date |-> "2015-08-28", duration_ms |-> 242253],
                [name |-> "Earned It", popularity |-> 94, album |-> "Beauty Behind the Madness", release_date |-> "2015-08-28", duration_ms |-> 277680] >>,
            albums |-> <<
                [name |-> "Dawn FM", release_date |-> "2022-01-07", total_tracks |-> 16, image_url |-> "https://i.scdn.co/image/ab67616d0000b273c6af5ffa661a365b72cf542d"],
                [name |-> "After Hours", release_date |-> "2020-03-20", total_tracks |-> 14, image_url |-> "https://i.scdn.co/image/ab67616d0000b2738863bc11d2aa12b54f5aeb36"],
                [name |-> "Starboy", release_date |-> "2016-11-25", total_tracks |-> 18, image_url |-> "https://i.scdn.co/image/ab67616d0000b273a048415db06a5b6fa7ec4e1a"] >> ]
      [] key = <<"b", "e", "y", "o", "n", "c", "e">> ->
          [ name |-> <<"B", "e", "y", "o", "n", "c", "\\u00e9">>,
            followers |-> 38421953,
            popularity |-> 95,
            monthly_listeners |-> 58976231,
            image_url |-> "https://i.scdn.co/image/ab6761610000e5eb12e3f20d05a8d6cfde988715",
            type |-> "artist",
            genres |-> <<"dance pop", "pop", "r&b">>,
            top_tracks |-> <<
                [name |-> "Halo", popularity |-> 94, album |-> "I AM...SASHA FIERCE", release_date |-> "2008-11-14", duration_ms |-> 261640],
                [name |-> "Single Ladies (Put a Ring on It)", popularity |-> 93, album |-> "I AM...SASHA FIERCE", release_date |-> "2008-11-14", duration_ms |-> 193093],
                [name |-> "Crazy in Love", popularity |-> 92, album |-> "Dangerously In Love", release_date |-> "2003-06-24", duration_ms |-> 236133],
                [name |-> "Formation", popularity |-> 91, album |-> "Lemonade", release_date |-> "2016-04-23", duration_ms |-> 225773],
                [name |-> "Run the World (Girls)", popularity |-> 90, album |-> "4", release_date |-> "2011-06-24", duration_ms |-> 235947] >>,
            albums |-> <<
                [name |-> "RENAISSANCE", release_date |-> "2022-07-29", total_tracks |-> 16, image_url |-> "https://i.scdn.co/image/ab67616d0000b273441d5b57653d4f10530cea3c"],
                [name |-> "Lemonade", release_date |-> "2016-04-23", total_tracks |-> 12, image_url |-> "https://i.scdn.co/image/ab67616d0000b273e44963b8bb127552ac451d5e"],
                [name |-> "BEYONC\\u00c9", release_date |-> "2013-12-13", total_tracks |-> 14, image_url |-> "https://i.scdn.co/image/ab67616d0000b2736a6387ab37f64034cdc7b367"] >> ]
      [] key = <<"b", "a", "d", "p", "a", "d", "d", "y">> ->
          [ name |-> <<"B", "a", "d", " ", "P", "a", "d", "d", "y">>,
            followers |-> 47218,
            popularity |-> 58,
            monthly_listeners |-> 93770,
            image_url |-> "https://i.scdn.co/image/ab67616d0000b273b8abc4de41be8b6b60521234",
            type |-> "artist",
            genres |-> <<"irish indie", "irish rock", "modern alternative rock">>,
            top_tracks |-> <<
                [name |-> "Durt", popularity |-> 67, album |-> "Durt", release_date |-> "2018-06-15", duration_ms |-> 194853],
                [name |-> "Sink or Swim", popularity |-> 65, album |-> "Sink or Swim", release_date |-> "2019-05-31", duration_ms |-> 202440],
                [name |-> "Waster", popularity |-> 64, album |-> "Waster", release_date |-> "2020-09-25", duration_ms |-> 185240],
                [name |-> "Landfill", popularity |-> 63, album |-> "Landfill", release_date |-> "2021-06-18", duration_ms |-> 212173],
                [name |-> "Bad Man", popularity |-> 62, album |-> "Bad Man", release_date |-> "2022-01-21", duration_ms |-> 197621] >>,
            albums |-> <<
                [name |-> "Bad Man", release_date |-> "2022-01-21", total_tracks |-> 1, image_url |-> "https://i.scdn.co/image/ab67616d0000b2736b10afb922ac6cb4cc84ecc5"],
                [name |-> "Landfill", release_date |-> "2021-06-18", total_tracks |-> 1, image_url |-> "https://i.scdn.co/image/ab67616d0000b2732e0bdd7e924ba543e7308a7f"],
                [name |-> "Waster", release_date |-> "2020-09-25", total_tracks |-> 1, image_url |-> "https://i.scdn.co/image/ab67616d0000b2734b0dad6602118bef8838829a"] >> ]
      [] key = <<"s", "p", "o", "t", "i", "f", "y">> ->
          [ name |-> <<"S", "p", "o", "t", "i", "f", "y">>,
            followers |-> 12536789,
            popularity |-> 100,
            type |-> "account",
            verified |-> TRUE,
            image_url |-> "https://i.scdn.co/image/ab67706c0000da84fcb8b92f2143f980d0ff29b7",
            playlists |-> <<
                [name |-> "RapCaviar", followers |-> 15246789, total_tracks |-> 50, image_url |-> "https://i.scdn.co/image/ab67706c0000da84b785a91532ebbf64e106b28a"],
                [name |-> "mint", followers |-> 6789423, total_tracks |-> 50, image_url |-> "https://i.scdn.co/image/ab67706c0000da842e27a35f6acb532859a7ec0f"],
                [name |-> "Lorem", followers |-> 988453, total_tracks |-> 50, image_url |-> "https://i.scdn.co/image/ab67706c0000da84e26811272a04965135645455"] >> ]
      [] key = <<"b", "t", "s">> ->
          [ name |-> <<"B", "T", "S">>,
            followers |-> 60987453,
            popularity |-> 95,
            monthly_listeners |-> 30987654,
            image_url |-> "https://i.scdn.co/image/ab6761610000e5ebcbed919527bb3fc185963e34",
            type |-> "artist",
            genres |-> <<"k-pop", "k-pop boy group", "pop">>,
            top_tracks |-> <<
                [name |-> "Dynamite", popularity |-> 97, album |-> "Dynamite (DayTime Version)", release_date |-> "2020-08-21", duration_ms |-> 199053],
                [name |-> "Butter", popularity |-> 96, album |-> "Butter", release_date |-> "2021-05-21", duration_ms |-> 164442],
                [name |-> "Boy With Luv (feat. Halsey)", popularity |-> 95, album |-> "MAP OF THE SOUL : PERSONA", release_date |-> "2019-04-12", duration_ms |-> 229773],
                [name |-> "Permission to Dance", popularity |-> 94, album |-> "Butter", release_date |-> "2021-07-09", duration_ms |-> 187795],
                [name |-> "FAKE LOVE", popularity |-> 93, album |-> "LOVE YOURSELF \\u8f49 Tear", release_date |-> "2018-05-18", duration_ms |-> 248347] >>,
            albums |-> <<
                [name |-> "Proof", release_date |-> "2022-06-10", total_tracks |-> 48, image_url |-> "https://i.scdn.co/image/ab67616d0000b2738a701e76e8456f2be3fb725e"],
                [name |-> "BE", release_date |-> "2020-11-20", total_tracks |-> 8, image_url |-> "https://i.scdn.co/image/ab67616d0000b273a8a1ac2fdae743a494ee65d9"],
                [name |-> "MAP OF THE SOUL : 7", release_date |-> "2020-02-21", total_tracks |-> 20, image_url |-> "https://i.scdn.co/image/ab67616d0000b2732b0f28d77dfef80bfd6ba451"] >> ]

\* The names a plain object inherits from Object.prototype that survive
\* toLowerCase: knownProfiles[name] is truthy for them although they are no
\* keys of the dataset.
inheritedProperties ==
    { <<"c", "o", "n", "s", "t", "r", "u", "c", "t", "o", "r">>,
      <<"_", "_", "p", "r", "o", "t", "o", "_", "_">> }

isKnownKey(key) == listIncludes(knownProfileKeys, key)

\* if (knownProfiles[name]): an own key, or an inherited property
lookupIsTruthy(name) == isKnownKey(name) \/ name \in inheritedProperties

\* {...knownProfiles[name]}: the fields of the record; an inherited property
\* (the function Object, the object Object.prototype) has no own enumerable
\* field to spread.
spreadProfile(name) ==
    IF isKnownKey(name) THEN knownProfiles(name) ELSE [f \in {} |-> JsonNull]

\* profile.type === 'account' ? 'user' : 'artist'
urlKind(name) ==
    IF isKnownKey(name) /\ knownProfiles(name).type = "account" THEN "user" ELSE "artist"

\* `https://open.spotify.com/${kind}/${name}`
spotifyUrl(kind, name) == <<"https://open.spotify.com/", kind, "/", name>>

----------------------------------------------------------------------------
(* The edit distance of the close-match step.                              *)

\* min3 as it would be with the third argument of Math.min left out.
min3WithoutSubstitutions(a, b, c) == IF a <= b THEN a ELSE b

min3(a, b, c) ==
    IF a <= b /\ a <= c THEN a ELSE IF b <= c THEN b ELSE c

\* The inner loop as it would be with the comparison of the two characters
\* left out: a substitution always costs one.
RECURSIVE fillRowAlwaysSubstituting(_, _, _, _, _, _)
fillRowAlwaysSubstituting(a, b, i, previousRow, currentRow, j) ==
    IF Len(currentRow) > Len(b) THEN currentRow
    ELSE LET insertions == previousRow[j + 2] + 1
             deletions == currentRow[j + 1] + 1
             substitutions == previousRow[j + 1] + 1
         IN fillRowAlwaysSubstituting(a, b, i, previousRow,
                Append(currentRow, min3(insertions, deletions, substitutions)),
                j + 1)

\* The inner loop over j (0-based, as in the source); rows are 1-based here.
\* currentRow holds j + 1 entries when the loop tests j < s2.length, and the
\* test is written on its length, which makes TLC compute the row entry by
\* entry.
RECURSIVE fillRow(_, _, _, _, _, _)
fillRow(a, b, i, previousRow, currentRow, j) ==
    IF Len(currentRow) > Len(b) THEN currentRow
    ELSE LET insertions == previousRow[j + 2] + 1
             deletions == currentRow[j + 1] + 1
             substitutions ==
                 previousRow[j + 1] + (IF a[i + 1] # b[j + 1] THEN 1 ELSE 0)
         IN fillRow(a, b, i, previousRow,
                    Append(currentRow, min3(insertions, deletions, substitutions)),
                    j + 1)

\* The outer loop over i; previousRow always holds s2.length + 1 entries.
RECURSIVE fillRows(_, _, _, _)
fillRows(a, b, previousRow, i) ==
    IF i >= Len(a) \/ Len(previousRow) # Len(b) + 1 THEN previousRow
    ELSE fillRows(a, b, fillRow(a, b, i, previousRow, <<i + 1>>, 0), i + 1)

RECURSIVE compareDistance(_, _)
compareDistance(a, b) ==
    IF Len(a) < Len(b) THEN compareDistance(b, a)
    ELSE IF Len(b) = 0 THEN Len(a)
    ELSE fillRows(a, b, [k \in 1..(Len(b) + 1) |-> k - 1], 0)[Len(b) + 1]

\* The filter as it would be with the threshold one lower.
isCloseMatchWithinOne(query, name) == compareDistance(query, name) <= 1

\* Object.keys(knownProfiles).filter(name => compareDistance(query, name) <= 2)
isCloseMatch(query, name) == compareDistance(query, name) <= 2

\* The list as it would be if it were built from the last key to the first.
closeMatchesLastFirst(query) ==
    LET Close(name) == isCloseMatch(query, name)
        kept == SelectSeq(knownProfileKeys, Close)
    IN [i \in 1..Len(kept) |-> kept[Len(kept) + 1 - i]]

closeMatches(query) ==
    LET Close(name) == isCloseMatch(query, name)
    IN SelectSeq(knownProfileKeys, Close)

----------------------------------------------------------------------------
(* The synthetic profiles of the Spotify resolver.  Every operator that    *)
(* draws takes the run's random source src and the index k of its first   *)
(* draw; a loop returns [value, next], next being the index of the draw   *)
(* that follows it.                                                        *)

\* const genres = [...] (705-711)
genrePools ==
    << <<"indie", "alternative", "rock", "indie rock", "alternative rock">>,
       <<"hip hop", "rap", "trap", "conscious hip hop", "underground hip hop">>,
       <<"edm", "electronic", "dance", "house", "techno">>,
       <<"pop", "synth pop", "dance pop", "electropop", "art pop">>,
       <<"r&b", "soul", "neo soul", "contemporary r&b", "urban contemporary">> >>

\* The image pools (759-765, 791-797, 837-843).
albumImages ==
    << "https://i.scdn.co/image/ab67616d0000b273b11bdc91cb9ac98b16ea29b1",
       "https://i.scdn.co/image/ab67616d0000b273cb4ec52c48a6b071ed2ab6bc",
       "https://i.scdn.co/image/ab67616d0000b2737358a760596f0c9aee3a1cc6",
       "https://i.scdn.co/image/ab67616d0000b273e0c86ff886d8101f24dc223b",
       "https://i.scdn.co/image/ab67616d0000b273afb855e6eba49a012b37c60a" >>
artistImages ==
    << "https://i.scdn.co/image/ab6761610000e5eb6a0633b2b741fd857558e409",
       "https://i.scdn.co/image/ab6761610000e5eb8c7f275dd8dae2d1676c7b49",
       "https://i.scdn.co/image/ab6761610000e5ebeac917b9a5db711acb84862a",
       "https://i.scdn.co/image/ab6761610000e5ebc7db57b1c848a1532767c696",
       "https://i.scdn.co/image/ab6761610000e5ebf3ca460461fae39243a15316" >>
playlistImages ==
    << "https://mosaic.scdn.co/640/ab67616d0000b2733d92b2ad5af9fbc8637425f0ab67616d0000b27365a6fc854a3d3dd8561b3d6aab67616d0000b273b11078ee23dcd99e19a22136ab67616d0000b273f46de17106c4094169e8f278",
       "https://mosaic.scdn.co/640/ab67616d0000b273337c5cd881484f68c460b92cab67616d0000b273b29fe3874f65bb79ea52b19dab67616d0000b273d0ada88c5f051976c6dbafdab67616d0000b273dd7106adf7ec3cb52c87cabf",
       "https://mosaic.scdn.co/640/ab67616d0000b2736b44ad73d4e6c6e553dac3ebab67616d0000b273a48dd70027ffc3fc2e29e0cfab67616d0000b273ce8f4e0a06bbfc4f425917adab67616d0000b273e3119a3e3e0ca37bb180c0a0",
       "https://i.scdn.co/image/ab67706c0000da84df9f7092c2fbdefa3b502142",
       "https://i.scdn.co/image/ab67706c0000da84507e4f2a8c4af45e4b556d09" >>

\* generateAlbumTitle (723-733)
albumWords ==
    << <<"E", "u", "p", "h", "o", "r", "i", "a">>, <<"D", "r", "e", "a", "m", "e", "r">>,
       <<"M", "i", "d", "n", "i", "g", "h", "t">>, <<"S", "u", "n", "r", "i", "s", "e">>,
       <<"H", "o", "r", "i", "z", "o", "n">>, <<"N", "o", "s", "t", "a", "l", "g", "i", "a">>,
       <<"R", "e", "v", "o", "l", "u", "t", "i", "o", "n">>, <<"J", "o", "u", "r", "n", "e", "y">>,
       <<"F", "r", "e", "e", "d", "o", "m">>, <<"U", "t", "o", "p", "i", "a">> >>

\* generateSongTitle (736-746)
songWords ==
    << <<"L", "o", "v", "e">>, <<"H", "a", "t", "e">>, <<"D", "r", "e", "a", "m">>,
       <<"H", "o", "p", "e">>, <<"F", "a", "i", "t", "h">>,
       <<"P", "a", "r", "a", "d", "i", "s", "e">>, <<"H", "e", "a", "v", "e", "n">>,
       <<"H", "e", "l", "l">>, <<"L", "i", "f", "e">>, <<"T", "i", "m", "e">> >>
songPlaces ==
    << <<"M", "i", "n", "d">>, <<"H", "e", "a", "r", "t">>, <<"S", "o", "u", "l">>,
       <<"D", "r", "e", "a", "m">>, <<"W", "o", "r", "l", "d">> >>
songAdjectives ==
    << <<"B", "e", "a", "u", "t", "i", "f", "u", "l">>, <<"C", "r", "a", "z", "y">>,
       <<"A", "m", "a", "z", "i", "n", "g">>, <<"P", "e", "r", "f", "e", "c", "t">>,
       <<"B", "r", "o", "k", "e", "n">> >>
songNouns ==
    << <<"D", "a", "y">>, <<"N", "i", "g", "h", "t">>, <<"L", "o", "v", "e">>,
       <<"W", "o", "r", "l", "d">>, <<"G", "i", "r", "l">>, <<"B", "o", "y">> >>
songWays ==
    << <<"W", "a", "y">>, <<"P", "a", "t", "h">>, <<"J", "o", "u", "r", "n", "e", "y">>,
       <<"S", "t", "o", "r", "y">>, <<"L", "e", "g", "e", "n", "d">> >>

\* generatePlaylistName (818-829)
playlistPrefixes ==
    << <<"M", "y">>, <<"F", "a", "v", "o", "r", "i", "t", "e">>, <<"B", "e", "s", "t">>,
       <<"U", "l", "t", "i", "m", "a", "t", "e">>, <<"T", "o", "p">>,
       <<"E", "s", "s", "e", "n", "t", "i", "a", "l">> >>
playlistTypes ==
    << <<"V", "i", "b", "e", "s">>, <<"M", "i", "x">>,
       <<"C", "o", "l", "l", "e", "c", "t", "i", "o", "n">>,
       <<"P", "l", "a", "y", "l", "i", "s", "t">>,
       <<"S", "e", "l", "e", "c", "t", "i", "o", "n", "s">>, <<"H", "i", "t", "s">> >>
playlistGenres ==
    << <<"R", "o", "c", "k">>, <<"P", "o", "p">>, <<"H", "i", "p", " ", "H", "o", "p">>,
       <<"R", "&", "B">>, <<"E", "l", "e", "c", "t", "r", "o", "n", "i", "c">>,
       <<"I", "n", "d", "i", "e">>, <<"C", "h", "i", "l", "l">>, <<"P", "a", "r", "t", "y">>,
       <<"W", "o", "r", "k", "o", "u", "t">>, <<"F", "o", "c", "u", "s">> >>

\* The fixed texts of the template strings.
textThe == <<"T", "h", "e", " ">>
textExperience == <<" ", "E", "x", "p", "e", "r", "i", "e", "n", "c", "e">>
textWorld == <<"'", "s", " ", "W", "o", "r", "l", "d">>
textInterlude == <<"'", "s", " ", "I", "n", "t", "e", "r", "l", "u", "d", "e">>
textInMy == <<"I", "n", " ", "M", "y", " ">>
textPossessive == <<"'", "s", " ">>

\* The for loop of selectedGenres (714-720); its bound is drawn again at
\* every test of the loop condition.
RECURSIVE selectGenres(_, _, _, _, _)
selectGenres(src, k, randomGenreSet, i, selectedGenres) ==
    IF i < floorRandom(src, k, 3) + 2
    THEN LET randomGenre == randomGenreSet[floorRandom(src, k + 1, 5) + 1]
         IN selectGenres(src, k + 2, randomGenreSet, i + 1,
                         IF listIncludes(selectedGenres, randomGenre)
                         THEN selectedGenres
                         ELSE Append(selectedGenres, randomGenre))
    ELSE [value |-> selectedGenres, next |-> k + 1]

\* generateAlbumTitle (723-733): three draws, two for the formats that hold
\* one and one for the choice of the format.
generateAlbumTitle(src, k, artistName, formattedName) ==
    LET albumTitleFormats ==
            << split(artistName, {" "})[1],
               textThe \o artistName \o textExperience,
               artistName \o <<" ">> \o <<IF floorRandom(src, k, 2) + 1 = 1 THEN "1" ELSE "2">>,
               albumWords[floorRandom(src, k + 1, 10) + 1],
               formattedName \o textWorld >>
    IN albumTitleFormats[floorRandom(src, k + 2, 5) + 1]

\* generateSongTitle (736-746): six draws.
generateSongTitle(src, k, artistName) ==
    LET songTitleFormats ==
            << songWords[floorRandom(src, k, 10) + 1],
               artistName \o textInterlude,
               textInMy \o songPlaces[floorRandom(src, k + 1, 5) + 1],
               songAdjectives[floorRandom(src, k + 2, 5) + 1] \o <<" ">>
                   \o songNouns[floorRandom(src, k + 3, 6) + 1],
               textThe \o songWays[floorRandom(src, k + 4, 5) + 1] >>
    IN songTitleFormats[floorRandom(src, k + 5, 5) + 1]

\* The loop of albums as it would be with the years counted upwards.
RECURSIVE generateAlbumsOldestFirst(_, _, _, _, _)
generateAlbumsOldestFirst(src, k, formattedName, i, albums) ==
    IF i < floorRandom(src, k, 2) + 2
    THEN LET albumYear == 2021 + i
             randomMonth == floorRandom(src, k + 1, 12) + 1
             randomDay == floorRandom(src, k + 2, 28) + 1
             album == [ name |-> generateAlbumTitle(src, k + 3, formattedName, formattedName),
                        release_date |-> [year |-> albumYear, month |-> randomMonth,
                                          day |-> randomDay],
                        total_tracks |-> floorRandom(src, k + 6, 8) + 6,
                        image_url |-> albumImages[floorRandom(src, k + 7, 5) + 1] ]
         IN generateAlbumsOldestFirst(src, k + 8, formattedName, i + 1,
                                      Append(albums, album))
    ELSE [value |-> albums, next |-> k + 1]

\* The for loop of albums (749-767).  release_date is the date the template
\* string formats, as [year, month, day].
RECURSIVE generateAlbums(_, _, _, _, _)
generateAlbums(src, k, formattedName, i, albums) ==
    IF i < floorRandom(src, k, 2) + 2
    THEN LET albumYear == 2023 - i
             randomMonth == floorRandom(src, k + 1, 12) + 1
             randomDay == floorRandom(src, k + 2, 28) + 1
             album == [ name |-> generateAlbumTitle(src, k + 3, formattedName, formattedName),
                        release_date |-> [year |-> albumYear, month |-> randomMonth,
                                          day |-> randomDay],
                        total_tracks |-> floorRandom(src, k + 6, 8) + 6,
                        image_url |-> albumImages[floorRandom(src, k + 7, 5) + 1] ]
         IN generateAlbums(src, k + 8, formattedName, i + 1, Append(albums, album))
    ELSE [value |-> albums, next |-> k + 1]

\* The loop of topTracks as it would be with the bound one short.
RECURSIVE generateTopTracksOneShort(_, _, _, _, _, _)
generateTopTracksOneShort(src, k, formattedName, albums, i, topTracks) ==
    IF i < 4
    THEN LET randomAlbum == albums[floorRandom(src, k, Len(albums)) + 1]
             track == [ name |-> generateSongTitle(src, k + 1, formattedName),
                        popularity |-> floorRandom(src, k + 7, 30) + 50,
                        album |-> randomAlbum.name,
                        release_date |-> randomAlbum.release_date,
                        duration_ms |-> floorRandom(src, k + 8, 100000) + 150000 ]
         IN generateTopTracksOneShort(src, k + 9, formattedName, albums, i + 1,
                                      Append(topTracks, track))
    ELSE [value |-> topTracks, next |-> k]

\* The for loop of topTracks (770-780): five tracks, nine draws each.
RECURSIVE generateTopTracks(_, _, _, _, _, _)
generateTopTracks(src, k, formattedName, albums, i, topTracks) ==
    IF i < 5
    THEN LET randomAlbum == albums[floorRandom(src, k, Len(albums)) + 1]
             track == [ name |-> generateSongTitle(src, k + 1, formattedName),
                        popularity |-> floorRandom(src, k + 7, 30) + 50,
                        album |-> randomAlbum.name,
                        release_date |-> randomAlbum.release_date,
                        duration_ms |-> floorRandom(src, k + 8, 100000) + 150000 ]
         IN generateTopTracks(src, k + 9, formattedName, albums, i + 1,
                              Append(topTracks, track))
    ELSE [value |-> topTracks, next |-> k]

\* The likely_artist branch (697-805).
artistProfile(src, rawUsername, normalizedUsername) ==
    LET formattedName == formatName(rawUsername, ArtistSeparators)
        randomGenreSet == genrePools[floorRandom(src, 0, 5) + 1]
        selectedGenres == selectGenres(src, 1, randomGenreSet, 0, <<>>)
        albums == generateAlbums(src, selectedGenres.next, formattedName, 0, <<>>)
        topTracks == generateTopTracks(src, albums.next, formattedName, albums.value, 0, <<>>)
        k == topTracks.next
    IN [ username |-> normalizedUsername,
         name |-> formattedName,
         followers |-> floorRandom(src, k, 50000) + 100,
         popularity |-> floorRandom(src, k + 1, 80) + 20,
         monthly_listeners |-> floorRandom(src, k + 2, 80000) + 1000,
         image_url |-> artistImages[floorRandom(src, k + 3, 5) + 1],
         type |-> "artist",
         genres |-> selectedGenres.value,
         top_tracks |-> topTracks.value,
         albums |-> albums.value,
         simulated |-> TRUE,
         external_url |-> spotifyUrl("artist", normalizedUsername) ]

\* generatePlaylistName (818-829): the draw of useGenre, then two draws for
\* the genre form or one for the possessive form.
generatePlaylistName(src, k, formattedName) ==
    IF randomAboveHalf(src, k)
    THEN [ value |-> playlistPrefixes[floorRandom(src, k + 1, 6) + 1] \o <<" ">>
                         \o playlistGenres[floorRandom(src, k + 2, 10) + 1],
           next |-> k + 3 ]
    ELSE [ value |-> formattedName \o textPossessive
                         \o playlistTypes[floorRandom(src, k + 1, 6) + 1],
           next |-> k + 2 ]

\* The for loop of playlists (831-845).
RECURSIVE generatePlaylists(_, _, _, _, _)
generatePlaylists(src, k, formattedName, i, playlists) ==
    IF i < floorRandom(src, k, 3) + 2
    THEN LET name == generatePlaylistName(src, k + 1, formattedName)
             playlist == [ name |-> name.value,
                           followers |-> floorRandom(src, name.next, 1000) + 10,
                           total_tracks |-> floorRandom(src, name.next + 1, 50) + 20,
                           image_url |-> playlistImages[floorRandom(src, name.next + 2, 5) + 1] ]
         IN generatePlaylists(src, name.next + 3, formattedName, i + 1,
                              Append(playlists, playlist))
    ELSE [value |-> playlists, next |-> k + 1]

\* The isLikelyUser branch (810-858).
listenerProfile(src, rawUsername, normalizedUsername) ==
    LET formattedName == formatName(rawUsername, ListenerSeparators)
        playlists == generatePlaylists(src, 0, formattedName, 0, <<>>)
    IN [ username |-> normalizedUsername,
         name |-> formattedName,
         followers |-> floorRandom(src, playlists.next, 5000) + 10,
         type |-> "user",
         playlists |-> playlists.value,
         simulated |-> TRUE,
         external_url |-> spotifyUrl("user", normalizedUsername) ]

----------------------------------------------------------------------------
(* The Spotify resolver (414-868).                                         *)

weeknd == <<"w", "e", "e", "k", "n", "d">>
theweeknd == <<"t", "h", "e", "w", "e", "e", "k", "n", "d">>

\* username.toLowerCase().replace(/\s+/g, '') (631)
normalize(rawUsername) == removeWhitespace(toLowerCase(rawUsername))

\* The rewrite as it would be if it were left out.
applyAliasNever(name) == name

\* The rewrite of 'weeknd' (634-636).
applyAlias(name) ==
    IF name = weeknd /\ lookupIsTruthy(theweeknd) THEN theweeknd ELSE name

normalizedUsernameOf(rawUsername) == applyAlias(normalize(rawUsername))

\* The exact answer as it would be with the record spread before the
\* handler's own fields and a provenance flag added.
exactMatchBodyFlagged(name) ==
    [ exists |-> TRUE,
      profile |-> [ username |-> name,
                    external_url |-> spotifyUrl(urlKind(name), name),
                    simulated |-> FALSE ]
                      @@ spreadProfile(name) ]

\* The exact lookup answers (638-649).
exactMatchBody(name) ==
    [ exists |-> TRUE,
      profile |-> [external_url |-> spotifyUrl(urlKind(name), name)]
                      @@ spreadProfile(name)
                      @@ [username |-> name] ]

\* `Exact match '${username}' not found, showing results for '${profile.name}' instead.`
closeMatchNote(rawUsername, name) ==
    << "Exact match '", rawUsername, "' not found, showing results for '", name,
       "' instead." >>

\* The close-match answer (678-692).
closeMatchBody(rawUsername, closestMatch) ==
    [ exists |-> TRUE,
      profile |-> [ external_url |-> spotifyUrl(urlKind(closestMatch), closestMatch),
                    note |-> closeMatchNote(rawUsername, knownProfiles(closestMatch).name) ]
                      @@ knownProfiles(closestMatch)
                      @@ [username |-> closestMatch] ]

\* const likely_artist = username.length > 3 && !username.match(/\d{3,}/) (695)
likely_artist(rawUsername) == Len(rawUsername) > 3 /\ ~matchesThreeDigits(rawUsername)

\* const isLikelyUser = username.length >= 3 && !username.includes(' ') (808)
isLikelyUser(rawUsername) == Len(rawUsername) >= 3 /\ ~includes(rawUsername, <<" ">>)

\* The body the handler answers with, the branch that answered, and the
\* handler's const closeMatches once the exact lookup has missed (653).
spotifyResolve(src, rawUsername) ==
    LET normalizedUsername == normalizedUsernameOf(rawUsername)
        matches == closeMatches(normalizedUsername)
        afterMiss == [closeMatches |-> matches]
    IN IF lookupIsTruthy(normalizedUsername)
       THEN [ branch |-> "exact", body |-> exactMatchBody(normalizedUsername),
              locals |-> [f \in {} |-> JsonNull] ]
       ELSE IF Len(matches) > 0
       THEN [ branch |-> "close", body |-> closeMatchBody(rawUsername, matches[1]),
              locals |-> afterMiss ]
       ELSE IF likely_artist(rawUsername)
       THEN [ branch |-> "artist",
              body |-> [ exists |-> TRUE,
                         profile |-> artistProfile(src, rawUsername, normalizedUsername) ],
              locals |-> afterMiss ]
       ELSE IF isLikelyUser(rawUsername)
       THEN [ branch |-> "listener",
              body |-> [ exists |-> TRUE,
                         profile |-> listenerProfile(src, rawUsername, normalizedUsername) ],
              locals |-> afterMiss ]
       ELSE [branch |-> "none", body |-> [exists |-> FALSE], locals |-> afterMiss]

----------------------------------------------------------------------------
(* What a live request can come back with.                                 *)

\* axios rejects with error.response set for a status outside 2xx, and with
\* no error.response for a transport failure or a timeout.
httpError(status) == [kind |-> "http", status |-> status]
liveErrors ==
    { httpError(404), httpError(429), httpError(500),
      [kind |-> "network"], [kind |-> "timeout"] }

liveSuccess(data) == [kind |-> "ok", data |-> data]

\* An exception the handler's own code raises inside a try block.
thrown(name) == [kind |-> name]

\* error.response && error.response.status === 404
isNotFoundError(error) == error.kind = "http" /\ error.status = 404

\* What a step of a handler produces: the HTTP status, the JSON body and the
\* resolution states it went through.
answer(status, body, states) == [status |-> status, body |-> body, states |-> states]

\* res.json({ exists: false })
notFoundBody == [exists |-> FALSE]

----------------------------------------------------------------------------
(* GitHub (27-74).                                                         *)

\* The user object of api.github.com for a login.
githubUserData(login) ==
    [ login |-> login, followers |-> 42, following |-> 7,
      avatar_url |-> "https://avatars.githubusercontent.com/u/1",
      public_repos |-> 3, bio |-> "bio", name |-> "name", company |-> "company",
      location |-> "location", created_at |-> "2015-01-01T00:00:00Z" ]

githubRepoData ==
    [ name |-> "repo", description |-> "description",
      html_url |-> "https://github.com/user/repo", stargazers_count |-> 5,
      language |-> "JavaScript" ]

githubUserOutcomes(login) == {liveSuccess(githubUserData(login))} \cup liveErrors

\* The repos request answers a list, or a body that is no list.
githubReposOutcomes ==
    { liveSuccess([isArray |-> TRUE, items |-> <<>>]),
      liveSuccess([isArray |-> TRUE, items |-> <<githubRepoData>>]),
      liveSuccess([isArray |-> FALSE, items |-> <<>>]) } \cup liveErrors

\* reposResponse.data.map(repo => ...) (43-49)
githubRecentRepos(items) ==
    [ i \in 1..Len(items) |->
        [ name |-> items[i].name, description |-> items[i].description,
          url |-> items[i].html_url, stars |-> items[i].stargazers_count,
          language |-> items[i].language ] ]

\* catch (error) (67-73)
githubCatch(error) ==
    IF isNotFoundError(error)
    THEN answer(200, notFoundBody, <<"LIVE_FAILED", "NOT_FOUND">>)
    ELSE answer(500, [error |-> "Server error fetching GitHub profile"],
                <<"LIVE_FAILED", "FAULT">>)

\* The handler from the return of the repos request on (43-73).
githubAfterRepos(user, outcome) ==
    IF outcome.kind # "ok" THEN githubCatch(outcome)
    ELSE IF ~outcome.data.isArray THEN githubCatch(thrown("TypeError"))
    ELSE answer(200,
                [ exists |-> TRUE,
                  profile |-> [ username |-> user.login,
                                followers |-> user.followers,
                                following |-> user.following,
                                avatar_url |-> user.avatar_url,
                                public_repos |-> user.public_repos,
                                bio |-> user.bio,
                                name |-> user.name,
                                company |-> user.company,
                                location |-> user.location,
                                created_at |-> user.created_at,
                                recent_repos |-> githubRecentRepos(outcome.data.items) ] ],
                <<"SUCCESS">>)

----------------------------------------------------------------------------
(* The fallback guesses.                                                   *)

\* The hardcoded lists (148, 219, 267, 324, 391).
twitterPopularUsernames ==
    << <<"e", "l", "o", "n", "m", "u", "s", "k">>, <<"g", "o", "o", "g", "l", "e">>,
       <<"m", "i", "c", "r", "o", "s", "o", "f", "t">>, <<"a", "p", "p", "l", "e">>,
       <<"a", "m", "a", "z", "o", "n">>, <<"n", "e", "t", "f", "l", "i", "x">>,
       <<"t", "w", "i", "t", "t", "e", "r">>, <<"f", "a", "c", "e", "b", "o", "o", "k">>,
       <<"i", "n", "s", "t", "a", "g", "r", "a", "m">>, <<"t", "i", "k", "t", "o", "k">>,
       <<"b", "i", "l", "l", "g", "a", "t", "e", "s">> >>

instagramPopularUsernames ==
    << <<"c", "r", "i", "s", "t", "i", "a", "n", "o">>, <<"l", "e", "o", "m", "e", "s", "s", "i">>,
       <<"b", "e", "y", "o", "n", "c", "e">>,
       <<"k", "i", "m", "k", "a", "r", "d", "a", "s", "h", "i", "a", "n">>,
       <<"a", "r", "i", "a", "n", "a", "g", "r", "a", "n", "d", "e">>, <<"n", "i", "k", "e">>,
       <<"n", "a", "t", "g", "e", "o">> >>

linkedinCommonNames ==
    << <<"j", "o", "h", "n">>, <<"d", "a", "v", "i", "d">>, <<"m", "i", "c", "h", "a", "e", "l">>,
       <<"s", "a", "r", "a", "h">>, <<"r", "o", "b", "e", "r", "t">>,
       <<"j", "e", "s", "s", "i", "c", "a">>, <<"p", "e", "t", "e", "r">>,
       <<"s", "u", "s", "a", "n">> >>

redditPopularUsernames ==
    << <<"s", "p", "e", "z">>, <<"g", "a", "l", "l", "o", "w", "b", "o", "o", "b">>,
       <<"t", "o", "o", "s", "h", "i", "f", "t", "y", "f", "o", "r", "y", "o", "u">>,
       <<"c", "o", "m", "m", "o", "n", "m", "i", "s", "s", "p", "e", "l", "l", "i", "n", "g", "b", "o", "t">> >>

tiktokPopularUsernames ==
    << <<"c", "h", "a", "r", "l", "i", "d", "a", "m", "e", "l", "i", "o">>,
       <<"a", "d", "d", "i", "s", "o", "n", "r", "e">>,
       <<"k", "h", "a", "b", "y", ".", "l", "a", "m", "e">>,
       <<"b", "e", "l", "l", "a", "p", "o", "a", "r", "c", "h">>,
       <<"z", "a", "c", "h", "k", "i", "n", "g">> >>

\* Twitter (147-158)
twitterExists(username) ==
    listIncludes(twitterPopularUsernames, toLowerCase(username)) \/ Len(username) > 3

twitterFallback(src, username) ==
    LET exists == twitterExists(username)
    IN answer(200,
              [ exists |-> exists,
                profile |-> IF exists
                            THEN [ username |-> username,
                                   followers |-> floorRandom(src, 0, 10000),
                                   simulated |-> TRUE ]
                            ELSE JsonNull ],
              <<"ATTEMPT_FALLBACK", IF exists THEN "SUCCESS" ELSE "NOT_FOUND">>)

\* Instagram (218-229)
instagramExists(username) ==
    listIncludes(instagramPopularUsernames, toLowerCase(username)) \/ Len(username) >= 4

instagramFallback(src, username) ==
    LET exists == instagramExists(username)
    IN answer(200,
              [ exists |-> exists,
                profile |-> IF exists
                            THEN [ username |-> username,
                                   followers |-> floorRandom(src, 0, 10000),
                                   simulated |-> TRUE ]
                            ELSE JsonNull ],
              <<"ATTEMPT_FALLBACK", IF exists THEN "SUCCESS" ELSE "NOT_FOUND">>)

\* `https://www.linkedin.com/in/${username}/`
linkedinUrl(username) == <<"https://www.linkedin.com/in/", username, "/">>

\* The LinkedIn guess as it would be without the test on 'test'.
linkedinLikelyExistsWithoutTest(username) ==
    \/ listIncludes(linkedinCommonNames, toLowerCase(username))
    \/ (Len(username) > 3 /\ ~includes(username, <<"1", "2", "3">>))

\* LinkedIn (266-278)
linkedinLikelyExists(username) ==
    \/ listIncludes(linkedinCommonNames, toLowerCase(username))
    \/ ( /\ Len(username) > 3
         /\ ~includes(username, <<"t", "e", "s", "t">>)
         /\ ~includes(username, <<"1", "2", "3">>) )

linkedinFallback(username) ==
    LET likelyExists == linkedinLikelyExists(username)
    IN answer(200,
              [ exists |-> likelyExists,
                profile |-> IF likelyExists
                            THEN [ username |-> username,
                                   url |-> linkedinUrl(username),
                                   simulated |-> TRUE ]
                            ELSE JsonNull ],
              <<"ATTEMPT_FALLBACK", IF likelyExists THEN "SUCCESS" ELSE "NOT_FOUND">>)

\* Reddit (323-335); created_at is Date.now() minus the drawn number of
\* milliseconds (up to five years of them), kept as that span in whole days.
redditExists(username) ==
    listIncludes(redditPopularUsernames, toLowerCase(username)) \/ Len(username) > 3

redditFallback(src, username) ==
    LET exists == redditExists(username)
    IN answer(200,
              [ exists |-> exists,
                profile |-> IF exists
                            THEN [ username |-> username,
                                   karma |-> floorRandom(src, 0, 50000) + 100,
                                   created_at |->
                                       [daysBeforeNow |-> floorRandom(src, 1, 5 * 365)],
                                   simulated |-> TRUE ]
                            ELSE JsonNull ],
              <<"ATTEMPT_FALLBACK", IF exists THEN "SUCCESS" ELSE "NOT_FOUND">>)

\* TikTok (390-402)
tiktokExists(username) ==
    listIncludes(tiktokPopularUsernames, toLowerCase(username)) \/ Len(username) > 3

tiktokFallback(src, username) ==
    LET exists == tiktokExists(username)
    IN answer(200,
              [ exists |-> exists,
                profile |-> IF exists
                            THEN [ username |-> username,
                                   followers |-> floorRandom(src, 0, 1000000) + 1000,
                                   likes |-> floorRandom(src, 1, 10000000) + 10000,
                                   simulated |-> TRUE ]
                            ELSE JsonNull ],
              <<"ATTEMPT_FALLBACK", IF exists THEN "SUCCESS" ELSE "NOT_FOUND">>)

----------------------------------------------------------------------------
(* Numbers in page text.                                                   *)

DigitChars == <<"0", "1", "2", "3", "4", "5", "6", "7", "8", "9">>

isNotComma(c) == c # ","

\* parseInt of a sequence of digits
RECURSIVE parseInt(_)
parseInt(digits) ==
    IF digits = <<>> THEN 0
    ELSE 10 * parseInt(SubSeq(digits, 1, Len(digits) - 1))
         + ((CHOOSE d \in 1..10 : DigitChars[d] = digits[Len(digits)]) - 1)

\* parseInt(match[1].replace(/,/g, ''))
parseCount(text) == parseInt(SelectSeq(text, isNotComma))

\* The magnitude a suffix letter stands for ("3K" is 3000, "1.2M" 1200000).
isMagnitudeSuffix(c) == c \in {"K", "M", "B"}
magnitude(c) == IF c = "K" THEN 1000 ELSE IF c = "M" THEN 1000000 ELSE 1000000000

RECURSIVE powerOfTen(_)
powerOfTen(n) == IF n = 0 THEN 1 ELSE 10 * powerOfTen(n - 1)

\* The count a text names: thousands separators dropped, a decimal number
\* with a magnitude suffix expanded ("12,345" is 12345, "1.2M" 1200000,
\* "3K" 3000); a text without digits names 0.
expandCount(text) ==
    LET plain == SelectSeq(text, isNotComma)
        suffixed == plain # <<>> /\ isMagnitudeSuffix(plain[Len(plain)])
        number == IF suffixed THEN SubSeq(plain, 1, Len(plain) - 1) ELSE plain
        factor == IF suffixed THEN magnitude(plain[Len(plain)]) ELSE 1
        dots == {i \in 1..Len(number) : number[i] = "."}
        dot == IF dots = {} THEN Len(number) + 1 ELSE CHOOSE i \in dots : \A j \in dots : i <= j
        whole == SubSeq(number, 1, dot - 1)
        fraction == SubSeq(number, dot + 1, Len(number))
    IN parseInt(whole) * factor
       + (parseInt(fraction) * factor) \div powerOfTen(Len(fraction))

----------------------------------------------------------------------------
(* Twitter (77-164).                                                       *)

\* The parts of a Nitter page the handler reads.  A text of a page is a
\* string; a tweet is shorter than the 100 characters the handler cuts at.
twitterPage(errorPanel, hasAvatar, timeline) ==
    [ errorPanel |-> errorPanel,
      stats |-> << <<"1", ",", "2", "3", "4">>, <<"5", "6">>, <<"7", ".", "8", "K">> >>,
      avatar |-> IF hasAvatar THEN <<"/pic/avatar.jpg">> ELSE <<>>,
      bio |-> "bio", fullname |-> "Full Name", location |-> "location",
      joindate |-> "March 2009",
      timeline |-> timeline ]

tweet(text) == [content |-> text, date |-> "Jan 1"]

twitterPages ==
    { twitterPage(TRUE, FALSE, <<>>),
      twitterPage(FALSE, TRUE, <<tweet("hello"), tweet("")>>),
      twitterPage(FALSE, FALSE, <<>>) }

twitterOutcomes == {liveSuccess(page) : page \in twitterPages} \cup liveErrors

\* parseTwitterNumbers is called at 96, 99 and 102; its declaration is not in
\* server.js as given, and it is taken to read a count as the documentation
\* of the parsing strategy says.
parseTwitterNumbers(text) == expandCount(text)

\* $('.timeline-item').each(...) (113-126): the first five items, those
\* with a text.
isTweetWithText(item) == item.content # ""
twitterRecentTweets(timeline) ==
    LET firstFive == SubSeq(timeline, 1, IF Len(timeline) < 5 THEN Len(timeline) ELSE 5)
        kept == SelectSeq(firstFive, isTweetWithText)
    IN [i \in 1..Len(kept) |-> [text |-> kept[i].content, date |-> kept[i].date]]

\* catch (scrapingError) (144-159): any failure of the inner try, a 404
\* included, goes to the guess.
twitterCatch(src, username, error) ==
    LET guess == twitterFallback(src, username)
    IN answer(guess.status, guess.body, <<"LIVE_FAILED">> \o guess.states)

\* The handler from the return of the request on (88-159).
twitterAfterLive(src, username, outcome) ==
    IF outcome.kind # "ok" THEN twitterCatch(src, username, outcome)
    ELSE LET page == outcome.data
             followers == parseTwitterNumbers(page.stats[3])
             following == parseTwitterNumbers(page.stats[2])
             tweets == parseTwitterNumbers(page.stats[1])
         IN IF page.errorPanel
            THEN answer(200, notFoundBody, <<"NOT_FOUND">>)
            ELSE answer(200,
                        [ exists |-> TRUE,
                          profile |-> [ username |-> username,
                                        name |-> page.fullname,
                                        followers |-> followers,
                                        following |-> following,
                                        tweets |-> tweets,
                                        avatar_url |->
                                            IF page.avatar # <<>>
                                            THEN <<"https://nitter.net">> \o page.avatar
                                            ELSE JsonNull,
                                        bio |-> page.bio,
                                        location |-> page.location,
                                        joined |-> page.joindate,
                                        recent_tweets |-> twitterRecentTweets(page.timeline),
                                        scraped |-> TRUE ] ],
                        <<"SUCCESS">>)

----------------------------------------------------------------------------
(* Instagram (167-235).                                                    *)

\* The meta description of a profile page, by the parts the three patterns
\* of the handler match: the text before the first comma, the number before
\* "Followers", the number before "Posts".  A part the description does not
\* hold is the empty sequence; a page without the meta tag holds none.
instagramDescription(name, followers, posts) ==
    [name |-> name, followers |-> followers, posts |-> posts]

instagramPages ==
    { instagramDescription(<<"L", "e", "o">>, <<"1", "2", ",", "3", "4", "5">>, <<"8", "7">>),
      instagramDescription(<<"L", "e", "o">>, <<>>, <<"8", "7">>),
      instagramDescription(<<>>, <<"9">>, <<>>),
      instagramDescription(<<>>, <<>>, <<>>) }

instagramOutcomes == {liveSuccess(page) : page \in instagramPages} \cup liveErrors

\* The handler from the return of the request on (179-229).
instagramAfterLive(src, username, outcome) ==
    IF outcome.kind = "ok"
    THEN LET metaDescription == outcome.data
             followers == IF metaDescription.followers # <<>>
                          THEN parseCount(metaDescription.followers) ELSE 0
             posts == IF metaDescription.posts # <<>>
                      THEN parseCount(metaDescription.posts) ELSE 0
             name == IF metaDescription.name # <<>> THEN metaDescription.name ELSE username
         IN answer(200,
                   [ exists |-> TRUE,
                     profile |-> [ username |-> username, name |-> name,
                                   followers |-> followers, posts |-> posts,
                                   bio |-> metaDescription, scraped |-> TRUE ] ],
                   <<"SUCCESS">>)
    ELSE IF isNotFoundError(outcome)
    THEN answer(200, notFoundBody, <<"LIVE_FAILED", "NOT_FOUND">>)
    ELSE LET guess == instagramFallback(src, username)
         IN answer(guess.status, guess.body, <<"LIVE_FAILED">> \o guess.states)

----------------------------------------------------------------------------
(* LinkedIn (238-284).                                                     *)

\* A HEAD request answers no body.
linkedinOutcomes == {liveSuccess(<<>>)} \cup liveErrors

linkedinAfterLive(src, username, outcome) ==
    IF outcome.kind = "ok"
    THEN answer(200,
                [ exists |-> TRUE,
                  profile |-> [ username |-> username,
                                url |-> linkedinUrl(username),
                                estimated_connections |-> floorRandom(src, 0, 500) + 200,
                                checked |-> TRUE ] ],
                <<"SUCCESS">>)
    ELSE IF isNotFoundError(outcome)
    THEN answer(200, notFoundBody, <<"LIVE_FAILED", "NOT_FOUND">>)
    ELSE LET guess == linkedinFallback(username)
         IN answer(guess.status, guess.body, <<"LIVE_FAILED">> \o guess.states)

----------------------------------------------------------------------------
(* Reddit (287-341).                                                       *)

\* The body of about.json: hasBody is response.data being truthy, hasData
\* is response.data.data being truthy; hasCreated and hasSubreddit say
\* whether created_utc and subreddit are in the user object.
redditBody(hasBody, hasData, totalKarma, iconImg, hasCreated, hasSubreddit) ==
    [ hasBody |-> hasBody, hasData |-> hasData,
      user |-> [ name |-> "name", total_karma |-> totalKarma, link_karma |-> 100,
                 comment_karma |-> 50, hasCreated |-> hasCreated,
                 created_utc |-> 1500000000, icon_img |-> iconImg,
                 snoovatar_img |-> "https://i.redd.it/snoovatar.png",
                 is_gold |-> FALSE, hasSubreddit |-> hasSubreddit,
                 subreddit |-> [public_description |-> "about me"] ] ]

redditBodies ==
    { redditBody(FALSE, FALSE, 0, "", FALSE, FALSE),
      redditBody(TRUE, FALSE, 0, "", FALSE, FALSE),
      redditBody(TRUE, TRUE, 175, "https://i.redd.it/icon.png", TRUE, TRUE),
      redditBody(TRUE, TRUE, 0, "", TRUE, FALSE),
      redditBody(TRUE, TRUE, 175, "", FALSE, TRUE) }

redditOutcomes == {liveSuccess(body) : body \in redditBodies} \cup liveErrors

\* catch (error) (318-336)
redditCatch(src, username, error) ==
    IF isNotFoundError(error)
    THEN answer(200, notFoundBody, <<"LIVE_FAILED", "NOT_FOUND">>)
    ELSE LET guess == redditFallback(src, username)
         IN answer(guess.status, guess.body, <<"LIVE_FAILED">> \o guess.states)

\* The handler from the return of the request on (298-336).  new Date(NaN)
\* .toISOString() raises a RangeError when created_utc is missing; created_at
\* is kept as the instant the ISO string names.
redditAfterLive(src, username, outcome) ==
    IF outcome.kind # "ok" THEN redditCatch(src, username, outcome)
    ELSE IF ~(outcome.data.hasBody /\ outcome.data.hasData)
    THEN answer(200, notFoundBody, <<"NOT_FOUND">>)
    ELSE LET userData == outcome.data.user
         IN IF ~userData.hasCreated
            THEN redditCatch(src, username, thrown("RangeError"))
            ELSE answer(200,
                        [ exists |-> TRUE,
                          profile |-> [ username |-> userData.name,
                                        karma |-> IF userData.total_karma # 0
                                                  THEN userData.total_karma
                                                  ELSE userData.link_karma
                                                       + userData.comment_karma,
                                        link_karma |-> userData.link_karma,
                                        comment_karma |-> userData.comment_karma,
                                        created_at |->
                                            [secondsSinceEpoch |-> userData.created_utc],
                                        avatar_url |-> IF userData.icon_img # ""
                                                       THEN userData.icon_img
                                                       ELSE userData.snoovatar_img,
                                        is_gold |-> userData.is_gold,
                                        description |->
                                            IF userData.hasSubreddit
                                            THEN userData.subreddit.public_description
                                            ELSE "",
                                        real_api |-> TRUE ] ],
                        <<"SUCCESS">>)

----------------------------------------------------------------------------
(* TikTok (344-408).                                                       *)

\* The two meta tags of a profile page: whether og:title is there and holds
\* '@' + username, the display name around it, and the numbers og:description
\* gives before "Followers" and "Likes" (the empty text when it gives none).
tiktokPage(hasTitle, titleHasHandle, followers, likes) ==
    [ hasTitle |-> hasTitle, titleHasHandle |-> titleHasHandle,
      displayName |-> "Display Name", followers |-> followers, likes |-> likes ]

tiktokPages ==
    { tiktokPage(FALSE, FALSE, <<>>, <<>>),
      tiktokPage(TRUE, FALSE, <<>>, <<>>),
      tiktokPage(TRUE, TRUE, <<>>, <<>>),
      tiktokPage(TRUE, TRUE, <<"1", ".", "2", "M">>, <<>>),
      tiktokPage(TRUE, TRUE, <<>>, <<"3", "K">>),
      tiktokPage(TRUE, TRUE, <<"1", ".", "2", "M">>, <<"3", "K">>) }

tiktokOutcomes == {liveSuccess(page) : page \in tiktokPages} \cup liveErrors

\* parseTikTokNumber is called at 368 and 369; its declaration is not in
\* server.js as given, and it is taken to read a count as the documentation
\* of the parsing strategy says.
parseTikTokNumber(text) == expandCount(text)

\* catch (error) (385-403)
tiktokCatch(src, username, error) ==
    IF isNotFoundError(error)
    THEN answer(200, notFoundBody, <<"LIVE_FAILED", "NOT_FOUND">>)
    ELSE LET guess == tiktokFallback(src, username)
         IN answer(guess.status, guess.body, <<"LIVE_FAILED">> \o guess.states)

\* The TikTok handler as it would be if it answered from no page itself:
\* whatever the page holds, the guess answers.
tiktokAfterLiveGuessing(src, username, outcome) ==
    tiktokCatch(src, username,
                IF outcome.kind = "ok" THEN thrown("Error") ELSE outcome)

\* The handler from the return of the request on (355-403).  A count the
\* description does not give is drawn, followers before likes.
tiktokAfterLive(src, username, outcome) ==
    IF outcome.kind # "ok" THEN tiktokCatch(src, username, outcome)
    ELSE LET page == outcome.data
             followersMatch == page.followers # <<>>
             likesMatch == page.likes # <<>>
             followers == IF followersMatch
                          THEN parseTikTokNumber(page.followers)
                          ELSE floorRandom(src, 0, 10000)
             likes == IF likesMatch
                      THEN parseTikTokNumber(page.likes)
                      ELSE floorRandom(src, IF followersMatch THEN 0 ELSE 1, 50000)
         IN IF ~(page.hasTitle /\ page.titleHasHandle)
            THEN answer(200, notFoundBody, <<"NOT_FOUND">>)
            ELSE answer(200,
                        [ exists |-> TRUE,
                          profile |-> [ username |-> username,
                                        name |-> page.displayName,
                                        followers |-> followers,
                                        likes |-> likes,
                                        bio |-> [followers |-> page.followers,
                                                 likes |-> page.likes],
                                        scraped |-> TRUE ] ],
                        <<"SUCCESS">>)

----------------------------------------------------------------------------
(* The queries.                                                            *)

NetworkPlatforms == {"github", "twitter", "instagram", "linkedin", "reddit", "tiktok"}
Platforms == NetworkPlatforms \cup {"spotify"}

\* The usernames the queries carry (a route parameter is never empty).
Usernames ==
    { <<"d", "r", "a", "k", "e">>,
      <<"D", "r", "a", "k", "e">>,
      <<"d", "r", " ", "a", "k", "e">>,
      <<"w", "e", "e", "k", "n", "d">>,
      <<"T", "h", "e", " ", "W", "e", "e", "k", "n", "d">>,
      <<"a", "d", "e", "l">>,
      <<"b">>,
      <<"b", "t", "s", "1", "2">>,
      <<"1", "2">>,
      <<"a", "b", "c">>,
      <<"z", "o", "e">>,
      <<"u", "s", "e", "r", "1", "2", "3", "4">>,
      <<"x", "1", "2", "3">>,
      <<"j", "o", "h", "n">>,
      <<"t", "e", "s", "t", "1">>,
      <<"a", "b">>,
      <<"1", "\t", "2">>,
      <<"x", " ", "y">>,
      <<"a", "b", " ", "c", "d">>,
      <<"d", "j", "-", "n", "o", "v", "a">>,
      <<"E", "l", "o", "n", "M", "u", "s", "k">>,
      <<"n", "i", "k", "e">>,
      <<"s", "p", "o", "t", "i", "f", "y">>,
      <<"c", "o", "n", "s", "t", "r", "u", "c", "t", "o", "r">>,
      <<"h", "e", "w", "e", "e", "k", "n", "d">> }

\* The handlers in flight at one time.
Queries == {1}

NoUsername == <<>>
NoLocals == [f \in {} |-> JsonNull]
NoDistances == [p \in {} |-> 0]

\* await axios.get(...): the request is out and the handler is suspended.
pending == [kind |-> "pending"]
issued(request) == [request |-> request, outcome |-> pending]

\* The promise of the last request settles with outcome.
settled(issuedRequests, outcome) ==
    [issuedRequests EXCEPT ![Len(issuedRequests)].outcome = outcome]

\* Express calls the handler of the route: the handler starts in a free slot.
start(q, p, u, request) ==
    /\ pc[q] = "idle"
    /\ platform' = [platform EXCEPT ![q] = p]
    /\ reqUsername' = [reqUsername EXCEPT ![q] = u]
    /\ requests' = [requests EXCEPT ![q] = <<issued(request)>>]
    /\ path' = [path EXCEPT ![q] = <<"ATTEMPT_LIVE">>]
    /\ sent' = [sent EXCEPT ![q] = <<>>]
    /\ locals' = [locals EXCEPT ![q] = NoLocals]
    /\ pc' = [pc EXCEPT ![q] = "live"]

\* return res.json(body) / return res.status(500).json(body)
finish(q, result) ==
    /\ path' = [path EXCEPT ![q] = @ \o result.states]
    /\ sent' = [sent EXCEPT ![q] = Append(@, [status |-> result.status, body |-> result.body])]
    /\ pc' = [pc EXCEPT ![q] = "done"]

\* A handler suspended on its request, for platform p.
awaiting(q, p) == pc[q] = "live" /\ platform[q] = p

----------------------------------------------------------------------------
(* The handlers, one action per run between two awaits.                    *)

\* GitHub: up to the first await (28-34).
GithubRequest(q, u) ==
    /\ start(q, "github", u, "GET api.github.com/users/:username")
    /\ UNCHANGED matcherVars

\* GitHub: the user request returned (30-41, 67-73).
GithubUserReturned(q, outcome) ==
    /\ awaiting(q, "github")
    /\ IF outcome.kind = "ok"
       THEN /\ requests' = [requests EXCEPT
                               ![q] = Append(settled(@, outcome),
                                             issued("GET api.github.com/users/:username/repos"))]
            /\ locals' = [locals EXCEPT ![q] = [response |-> outcome.data]]
            /\ pc' = [pc EXCEPT ![q] = "repos"]
            /\ UNCHANGED <<path, sent>>
       ELSE /\ finish(q, githubCatch(outcome))
            /\ requests' = [requests EXCEPT ![q] = settled(@, outcome)]
            /\ UNCHANGED locals
    /\ UNCHANGED <<platform, reqUsername, matcherVars>>

\* GitHub: the repos request returned (37-73).
GithubReposReturned(q, outcome) ==
    /\ pc[q] = "repos"
    /\ finish(q, githubAfterRepos(locals[q].response, outcome))
    /\ requests' = [requests EXCEPT ![q] = settled(@, outcome)]
    /\ UNCHANGED <<platform, reqUsername, locals, matcherVars>>

TwitterRequest(q, u) ==
    /\ start(q, "twitter", u, "GET nitter.net/:username")
    /\ UNCHANGED matcherVars

\* The Twitter continuation as it would be if the handler kept the username
\* in a variable of the module, which the handler started last overwrites.
TwitterReturnedSharedUsername(q, outcome, src) ==
    LET others == {r \in DOMAIN pc : r # q /\ reqUsername[r] # NoUsername}
        shared == IF others = {} THEN reqUsername[q]
                  ELSE reqUsername[CHOOSE r \in others : TRUE]
    IN /\ awaiting(q, "twitter")
       /\ finish(q, twitterAfterLive(src, shared, outcome))
       /\ requests' = [requests EXCEPT ![q] = settled(@, outcome)]
       /\ UNCHANGED <<platform, reqUsername, locals, matcherVars>>

TwitterReturned(q, outcome, src) ==
    /\ awaiting(q, "twitter")
    /\ finish(q, twitterAfterLive(src, reqUsername[q], outcome))
    /\ requests' = [requests EXCEPT ![q] = settled(@, outcome)]
    /\ UNCHANGED <<platform, reqUsername, locals, matcherVars>>

InstagramRequest(q, u) ==
    /\ start(q, "instagram", u, "GET www.instagram.com/:username/")
    /\ UNCHANGED matcherVars

InstagramReturned(q, outcome, src) ==
    /\ awaiting(q, "instagram")
    /\ finish(q, instagramAfterLive(src, reqUsername[q], outcome))
    /\ requests' = [requests EXCEPT ![q] = settled(@, outcome)]
    /\ UNCHANGED <<platform, reqUsername, locals, matcherVars>>

LinkedinRequest(q, u) ==
    /\ start(q, "linkedin", u, "HEAD www.linkedin.com/in/:username/")
    /\ UNCHANGED matcherVars

LinkedinReturned(q, outcome, src) ==
    /\ awaiting(q, "linkedin")
    /\ finish(q, linkedinAfterLive(src, reqUsername[q], outcome))
    /\ requests' = [requests EXCEPT ![q] = settled(@, outcome)]
    /\ UNCHANGED <<platform, reqUsername, locals, matcherVars>>

RedditRequest(q, u) ==
    /\ start(q, "reddit", u, "GET www.reddit.com/user/:username/about.json")
    /\ UNCHANGED matcherVars

\* The Reddit continuation as it would be if a failed request were tried
\* once more before the catch block ran.
RedditReturnedRetrying(q, outcome, src) ==
    /\ awaiting(q, "reddit")
    /\ IF outcome.kind # "ok" /\ Len(requests[q]) < 2
       THEN /\ requests' = [requests EXCEPT
                               ![q] = Append(settled(@, outcome),
                                             issued("GET www.reddit.com/user/:username/about.json"))]
            /\ UNCHANGED <<pc, path, sent>>
       ELSE /\ finish(q, redditAfterLive(src, reqUsername[q], outcome))
            /\ requests' = [requests EXCEPT ![q] = settled(@, outcome)]
    /\ UNCHANGED <<platform, reqUsername, locals, matcherVars>>

RedditReturned(q, outcome, src) ==
    /\ awaiting(q, "reddit")
    /\ finish(q, redditAfterLive(src, reqUsername[q], outcome))
    /\ requests' = [requests EXCEPT ![q] = settled(@, outcome)]
    /\ UNCHANGED <<platform, reqUsername, locals, matcherVars>>

TiktokRequest(q, u) ==
    /\ start(q, "tiktok", u, "GET www.tiktok.com/@:username")
    /\ UNCHANGED matcherVars

\* The TikTok handler as it would be without the else branch of 382-384: a
\* page without the handle makes the handler return without a response.
TiktokReturnedSilent(q, outcome, src) ==
    LET result == tiktokAfterLive(src, reqUsername[q], outcome)
    IN /\ awaiting(q, "tiktok")
       /\ IF result.states = <<"NOT_FOUND">>
          THEN /\ path' = [path EXCEPT ![q] = @ \o result.states]
               /\ pc' = [pc EXCEPT ![q] = "done"]
               /\ UNCHANGED sent
          ELSE finish(q, result)
       /\ requests' = [requests EXCEPT ![q] = settled(@, outcome)]
       /\ UNCHANGED <<platform, reqUsername, locals, matcherVars>>

TiktokReturned(q, outcome, src) ==
    /\ awaiting(q, "tiktok")
    /\ finish(q, tiktokAfterLive(src, reqUsername[q], outcome))
    /\ requests' = [requests EXCEPT ![q] = settled(@, outcome)]
    /\ UNCHANGED <<platform, reqUsername, locals, matcherVars>>

\* Spotify: the handler awaits nothing and answers in the run that starts it.
Spotify(q, u, src) ==
    LET resolved == spotifyResolve(src, u)
    IN /\ pc[q] = "idle"
       /\ platform' = [platform EXCEPT ![q] = "spotify"]
       /\ reqUsername' = [reqUsername EXCEPT ![q] = u]
       /\ requests' = [requests EXCEPT ![q] = <<>>]
       /\ locals' = [locals EXCEPT ![q] = resolved.locals]
       /\ path' = [path EXCEPT ![q] =
                      << resolved.branch,
                         IF resolved.body.exists THEN "SUCCESS" ELSE "NOT_FOUND" >>]
       /\ sent' = [sent EXCEPT ![q] = <<[status |-> 200, body |-> resolved.body]>>]
       /\ pc' = [pc EXCEPT ![q] = "done"]
       /\ UNCHANGED matcherVars

\* The response is out and the handler has returned: nothing of the query
\* is kept, and its slot is free for the next one.
Close(q) ==
    /\ pc[q] = "done"
    /\ pc' = [pc EXCEPT ![q] = "idle"]
    /\ platform' = [platform EXCEPT ![q] = "none"]
    /\ reqUsername' = [reqUsername EXCEPT ![q] = NoUsername]
    /\ requests' = [requests EXCEPT ![q] = <<>>]
    /\ path' = [path EXCEPT ![q] = <<>>]
    /\ sent' = [sent EXCEPT ![q] = <<>>]
    /\ locals' = [locals EXCEPT ![q] = NoLocals]
    /\ UNCHANGED matcherVars

----------------------------------------------------------------------------
(* The specification of the server.                                        *)

Init ==
    /\ pc = [q \in Queries |-> "idle"]
    /\ platform = [q \in Queries |-> "none"]
    /\ reqUsername = [q \in Queries |-> NoUsername]
    /\ requests = [q \in Queries |-> <<>>]
    /\ path = [q \in Queries |-> <<>>]
    /\ sent = [q \in Queries |-> <<>>]
    /\ locals = [q \in Queries |-> NoLocals]
    /\ s1 = <<>>
    /\ s2 = <<>>
    /\ distance = NoDistances

Next ==
    \/ \E q \in Queries, u \in Usernames : GithubRequest(q, u)
    \/ \E q \in Queries :
           \E outcome \in githubUserOutcomes(reqUsername[q]) : GithubUserReturned(q, outcome)
    \/ \E q \in Queries, outcome \in githubReposOutcomes : GithubReposReturned(q, outcome)
    \/ \E q \in Queries, u \in Usernames : TwitterRequest(q, u)
    \/ \E q \in Queries, outcome \in twitterOutcomes, src \in RandomSources :
           TwitterReturned(q, outcome, src)
    \/ \E q \in Queries, u \in Usernames : InstagramRequest(q, u)
    \/ \E q \in Queries, outcome \in instagramOutcomes, src \in RandomSources :
           InstagramReturned(q, outcome, src)
    \/ \E q \in Queries, u \in Usernames : LinkedinRequest(q, u)
    \/ \E q \in Queries, outcome \in linkedinOutcomes, src \in RandomSources :
           LinkedinReturned(q, outcome, src)
    \/ \E q \in Queries, u \in Usernames : RedditRequest(q, u)
    \/ \E q \in Queries, outcome \in redditOutcomes, src \in RandomSources :
           RedditReturned(q, outcome, src)
    \/ \E q \in Queries, u \in Usernames : TiktokRequest(q, u)
    \/ \E q \in Queries, outcome \in tiktokOutcomes, src \in RandomSources :
           TiktokReturned(q, outcome, src)
    \/ \E q \in Queries, u \in Usernames, src \in RandomSources : Spotify(q, u, src)
    \/ \E q \in Queries : Close(q)

Spec == Init /\ [][Next]_vars

----------------------------------------------------------------------------
(* The server when every request settles: the promise a handler awaits is  *)
(* resolved or rejected at some time, and the event loop then runs the     *)
(* handler on.                                                             *)

\* The draws of the handlers of this specification: one source that repeats
\* a value and one that runs through the values.
SettlingSources == {src \in RandomSources : src.seed = 0 /\ src.stride <= 1}

\* The pending request of q settles, with a response or with an error.
RequestSettles(q) ==
    \/ \E outcome \in githubUserOutcomes(reqUsername[q]) : GithubUserReturned(q, outcome)
    \/ \E outcome \in githubReposOutcomes : GithubReposReturned(q, outcome)
    \/ \E outcome \in twitterOutcomes, src \in SettlingSources : TwitterReturned(q, outcome, src)
    \/ \E outcome \in instagramOutcomes, src \in SettlingSources :
           InstagramReturned(q, outcome, src)
    \/ \E outcome \in linkedinOutcomes, src \in SettlingSources :
           LinkedinReturned(q, outcome, src)
    \/ \E outcome \in redditOutcomes, src \in SettlingSources : RedditReturned(q, outcome, src)
    \/ \E outcome \in tiktokOutcomes, src \in SettlingSources : TiktokReturned(q, outcome, src)

NextSettling ==
    \/ \E q \in Queries, u \in Usernames : GithubRequest(q, u)
    \/ \E q \in Queries :
           \E outcome \in githubUserOutcomes(reqUsername[q]) : GithubUserReturned(q, outcome)
    \/ \E q \in Queries, outcome \in githubReposOutcomes : GithubReposReturned(q, outcome)
    \/ \E q \in Queries, u \in Usernames : TwitterRequest(q, u)
    \/ \E q \in Queries, outcome \in twitterOutcomes, src \in SettlingSources :
           TwitterReturned(q, outcome, src)
    \/ \E q \in Queries, u \in Usernames : InstagramRequest(q, u)
    \/ \E q \in Queries, outcome \in instagramOutcomes, src \in SettlingSources :
           InstagramReturned(q, outcome, src)
    \/ \E q \in Queries, u \in Usernames : LinkedinRequest(q, u)
    \/ \E q \in Queries, outcome \in linkedinOutcomes, src \in SettlingSources :
           LinkedinReturned(q, outcome, src)
    \/ \E q \in Queries, u \in Usernames : RedditRequest(q, u)
    \/ \E q \in Queries, outcome \in redditOutcomes, src \in SettlingSources :
           RedditReturned(q, outcome, src)
    \/ \E q \in Queries, u \in Usernames : TiktokRequest(q, u)
    \/ \E q \in Queries, outcome \in tiktokOutcomes, src \in SettlingSources :
           TiktokReturned(q, outcome, src)
    \/ \E q \in Queries, u \in Usernames, src \in SettlingSources : Spotify(q, u, src)
    \/ \E q \in Queries : Close(q)

SpecSettling ==
    Init /\ [][NextSettling]_vars /\ \A q \in Queries : WF_vars(RequestSettles(q))

----------------------------------------------------------------------------
(* The specification of the edit distance alone: two strings over a small  *)
(* alphabet, and compareDistance applied to them in both orders and to     *)
(* each with itself.                                                       *)

MatcherAlphabet == {"a", "b", "c"}
MatcherStrings == UNION {[1..n -> MatcherAlphabet] : n \in 0..MaxLen}

InitMatcher ==
    /\ pc = [q \in Queries |-> "idle"]
    /\ platform = [q \in Queries |-> "none"]
    /\ reqUsername = [q \in Queries |-> NoUsername]
    /\ requests = [q \in Queries |-> <<>>]
    /\ path = [q \in Queries |-> <<>>]
    /\ sent = [q \in Queries |-> <<>>]
    /\ locals = [q \in Queries |-> NoLocals]
    /\ s1 \in MatcherStrings
    /\ s2 \in MatcherStrings
    /\ distance = NoDistances

\* const distance = compareDistance(x, y) (674)
Compare(x, y) ==
    /\ <<x, y>> \notin DOMAIN distance
    /\ distance' = (<<x, y>> :> compareDistance(x, y)) @@ distance
    /\ UNCHANGED <<s1, s2, serverVars>>

NextMatcher == \E x \in {s1, s2}, y \in {s1, s2} : Compare(x, y)

SpecMatcher == InitMatcher /\ [][NextMatcher]_vars

----------------------------------------------------------------------------
(* The specification of two handlers in flight at one time.  Node runs a   *)
(* handler until its next await and then any other handler that is ready:  *)
(* the steps of the two queries interleave in every order.  The usernames  *)
(* and the random sources are a part of those of Spec.                     *)

ConcurrentQueries == {1, 2}

ConcurrentUsernames == {<<"j", "o", "h", "n">>, <<"b">>}

ConcurrentSources == {src \in RandomSources : src.stride = 1 /\ src.seed <= 1}

InitConcurrent ==
    /\ pc = [q \in ConcurrentQueries |-> "idle"]
    /\ platform = [q \in ConcurrentQueries |-> "none"]
    /\ reqUsername = [q \in ConcurrentQueries |-> NoUsername]
    /\ requests = [q \in ConcurrentQueries |-> <<>>]
    /\ path = [q \in ConcurrentQueries |-> <<>>]
    /\ sent = [q \in ConcurrentQueries |-> <<>>]
    /\ locals = [q \in ConcurrentQueries |-> NoLocals]
    /\ s1 = <<>>
    /\ s2 = <<>>
    /\ distance = NoDistances

NextConcurrent ==
    \/ \E q \in ConcurrentQueries, u \in ConcurrentUsernames : GithubRequest(q, u)
    \/ \E q \in ConcurrentQueries :
           \E outcome \in githubUserOutcomes(reqUsername[q]) : GithubUserReturned(q, outcome)
    \/ \E q \in ConcurrentQueries, outcome \in githubReposOutcomes :
           GithubReposReturned(q, outcome)
    \/ \E q \in ConcurrentQueries, u \in ConcurrentUsernames : TwitterRequest(q, u)
    \/ \E q \in ConcurrentQueries, outcome \in twitterOutcomes, src \in ConcurrentSources :
           TwitterReturned(q, outcome, src)
    \/ \E q \in ConcurrentQueries, u \in ConcurrentUsernames : InstagramRequest(q, u)
    \/ \E q \in ConcurrentQueries, outcome \in instagramOutcomes, src \in ConcurrentSources :
           InstagramReturned(q, outcome, src)
    \/ \E q \in ConcurrentQueries, u \in ConcurrentUsernames : LinkedinRequest(q, u)
    \/ \E q \in ConcurrentQueries, outcome \in linkedinOutcomes, src \in ConcurrentSources :
           LinkedinReturned(q, outcome, src)
    \/ \E q \in ConcurrentQueries, u \in ConcurrentUsernames : RedditRequest(q, u)
    \/ \E q \in ConcurrentQueries, outcome \in redditOutcomes, src \in ConcurrentSources :
           RedditReturned(q, outcome, src)
    \/ \E q \in ConcurrentQueries, u \in ConcurrentUsernames : TiktokRequest(q, u)
    \/ \E q \in ConcurrentQueries, outcome \in tiktokOutcomes, src \in ConcurrentSources :
           TiktokReturned(q, outcome, src)
    \/ \E q \in ConcurrentQueries, u \in ConcurrentUsernames, src \in ConcurrentSources :
           Spotify(q, u, src)
    \/ \E q \in ConcurrentQueries : Close(q)

SpecConcurrent == InitConcurrent /\ [][NextConcurrent]_vars

----------------------------------------------------------------------------
(* The vocabulary of the properties.                                       *)

\* The handler of q has answered.
done(q) == pc[q] = "done"

\* The response the handler of q wrote.
response(q) == sent[q][Len(sent[q])]

\* The handler of q went through the fallback step.
usedFallback(q) == \E i \in 1..Len(path[q]) : path[q][i] = "ATTEMPT_FALLBACK"

\* How many times it did.
fallbackRuns(q) == Cardinality({i \in 1..Len(path[q]) : path[q][i] = "ATTEMPT_FALLBACK"})

\* A request of q came back with HTTP 404.
liveNotFound(q) ==
    \E i \in 1..Len(requests[q]) : isNotFoundError(requests[q][i].outcome)

\* A request of q failed, and not with HTTP 404.
liveFailedOtherwise(q) ==
    \E i \in 1..Len(requests[q]) :
        /\ requests[q][i].outcome.kind \notin {"ok", "pending"}
        /\ ~isNotFoundError(requests[q][i].outcome)

\* The request of q came back with a response of the given platform.
liveAnswered(q, p) ==
    /\ platform[q] = p
    /\ Len(requests[q]) = 1
    /\ requests[q][1].outcome.kind = "ok"

\* The response holds nothing the handler takes for a profile: a Reddit
\* payload without a data object, a TikTok page whose og:title lacks the
\* handle.
liveHoldsNoProfile(q) ==
    \/ /\ liveAnswered(q, "reddit")
       /\ ~(requests[q][1].outcome.data.hasBody /\ requests[q][1].outcome.data.hasData)
    \/ /\ liveAnswered(q, "tiktok")
       /\ ~(requests[q][1].outcome.data.hasTitle /\ requests[q][1].outcome.data.titleHasHandle)

\* Reading the response raises an exception: a Reddit user object without
\* created_utc.
liveReadingRaises(q) ==
    /\ liveAnswered(q, "reddit")
    /\ requests[q][1].outcome.data.hasBody /\ requests[q][1].outcome.data.hasData
    /\ ~requests[q][1].outcome.data.user.hasCreated

----------------------------------------------------------------------------
(* C1.                                                                     *)

\* C1: in every response body that carries exists, the profile field is
\* present, and it is null exactly when exists is false.
C1_ProfileNullIffNotExists ==
    \A q \in Queries : \A i \in 1..Len(sent[q]) :
        LET body == sent[q][i].body
        IN "exists" \in DOMAIN body =>
              /\ "profile" \in DOMAIN body
              /\ ((body.exists = FALSE) <=> (body.profile = JsonNull))

----------------------------------------------------------------------------
(* C2.                                                                     *)

\* C2: a query of a network-backed resolver whose live request came back
\* with HTTP 404 ends in NOT_FOUND with exists false, and has not gone
\* through the fallback step.
C2_NotFoundNeverFallsBack ==
    \A q \in Queries :
        (done(q) /\ platform[q] \in NetworkPlatforms /\ liveNotFound(q)) =>
            /\ ~usedFallback(q)
            /\ path[q][Len(path[q])] = "NOT_FOUND"
            /\ response(q).body.exists = FALSE

----------------------------------------------------------------------------
(* C3.                                                                     *)

\* C3: a query of a network-backed resolver whose live request failed with
\* anything but HTTP 404 goes through the fallback step and is answered with
\* HTTP 200 and a body of exactly the fields exists and profile.
C3_FailureIsAbsorbed ==
    \A q \in Queries :
        (done(q) /\ platform[q] \in NetworkPlatforms /\ liveFailedOtherwise(q)) =>
            /\ usedFallback(q)
            /\ response(q).status = 200
            /\ DOMAIN response(q).body = {"exists", "profile"}

----------------------------------------------------------------------------
(* C4.                                                                     *)

----------------------------------------------------------------------------
(* C5.                                                                     *)

\* C5: a query of a network-backed resolver issues exactly one network
\* request, and its fallback step runs at most once.
C5_OneRequest ==
    \A q \in Queries :
        platform[q] \in NetworkPlatforms =>
            /\ Len(requests[q]) = 1
            /\ fallbackRuns(q) <= 1

\* C5, as the code has it: the GitHub handler issues a second request, for
\* the repositories, once the first has succeeded; every other query issues
\* one.  No request is issued twice, none is issued after a failed one, and
\* the fallback step runs at most once.
C5_NoRetry ==
    \A q \in Queries :
        platform[q] \in NetworkPlatforms =>
            /\ Len(requests[q]) =
                  IF platform[q] = "github" /\ requests[q][1].outcome.kind = "ok"
                  THEN 2 ELSE 1
            /\ \A i, j \in 1..Len(requests[q]) :
                  i < j => /\ requests[q][i].request # requests[q][j].request
                           /\ requests[q][i].outcome.kind = "ok"
            /\ fallbackRuns(q) <= 1

\* A GitHub query has ended on the failure of its second request.
C5_Witness ==
    \E q \in Queries :
        /\ done(q)
        /\ platform[q] = "github"
        /\ Len(requests[q]) = 2
        /\ requests[q][2].outcome.kind = "timeout"

----------------------------------------------------------------------------
(* C6.                                                                     *)

\* The hardcoded list of a platform with a fallback step.
popularUsernames(p) ==
    CASE p = "twitter" -> twitterPopularUsernames
      [] p = "instagram" -> instagramPopularUsernames
      [] p = "linkedin" -> linkedinCommonNames
      [] p = "reddit" -> redditPopularUsernames
      [] p = "tiktok" -> tiktokPopularUsernames

\* The shape heuristic of a platform, as the claim states it.
passesShapeHeuristic(p, u) ==
    CASE p \in {"twitter", "reddit", "tiktok"} -> Len(u) > 3
      [] p = "instagram" -> Len(u) >= 4
      [] p = "linkedin" -> /\ Len(u) > 3
                           /\ ~includes(u, <<"t", "e", "s", "t">>)
                           /\ ~includes(u, <<"1", "2", "3">>)

\* C6: the answer of the fallback step has exists true iff the lowercased
\* username is in the platform's list or the username passes the platform's
\* shape heuristic; a true answer carries a profile with simulated: true, a
\* false answer is NOT_FOUND with profile null.
C6_FallbackGuess ==
    \A q \in Queries :
        (done(q) /\ usedFallback(q)) =>
            LET p == platform[q]
                u == reqUsername[q]
                body == response(q).body
                guess == \/ listIncludes(popularUsernames(p), toLowerCase(u))
                         \/ passesShapeHeuristic(p, u)
            IN /\ p \in {"twitter", "instagram", "linkedin", "reddit", "tiktok"}
               /\ body.exists = guess
               /\ guess => /\ body.profile # JsonNull
                           /\ "simulated" \in DOMAIN body.profile
                           /\ body.profile.simulated = TRUE
                           /\ path[q][Len(path[q])] = "SUCCESS"
               /\ ~guess => /\ body.profile = JsonNull
                            /\ path[q][Len(path[q])] = "NOT_FOUND"

\* The LinkedIn guess has refused a name long enough, for the 'test' in it.
C6_Witness ==
    \E q \in Queries :
        /\ done(q)
        /\ usedFallback(q)
        /\ platform[q] = "linkedin"
        /\ reqUsername[q] = <<"t", "e", "s", "t", "1">>
        /\ response(q).body.exists = FALSE

----------------------------------------------------------------------------
(* C7.                                                                     *)

\* The positions of the dataset keys within edit distance 2 of a name.
keysWithinTwo(name) ==
    {i \in 1..Len(knownProfileKeys) : compareDistance(name, knownProfileKeys[i]) <= 2}

\* The first of them in the order of the dataset.
firstKeyWithinTwo(name) ==
    knownProfileKeys[CHOOSE i \in keysWithinTwo(name) : \A j \in keysWithinTwo(name) : i <= j]

\* The query is no key of the dataset after normalization and aliasing, and
\* a key is within edit distance 2 of it.
isCloseQuery(u) ==
    /\ ~isKnownKey(applyAlias(normalize(u)))
    /\ keysWithinTwo(applyAlias(normalize(u))) # {}

\* C7: a Spotify query that is no dataset key but has one within edit
\* distance 2 is answered exists: true with the record of the first such
\* key, that key as username, and a note that holds the query as it was
\* typed and the name of the record; no other Spotify response has a note.
C7_CloseMatch ==
    \A q \in Queries :
        (done(q) /\ platform[q] = "spotify") =>
            LET u == reqUsername[q]
                body == response(q).body
                hasNote == body.exists /\ "note" \in DOMAIN body.profile
            IN /\ isCloseQuery(u) =>
                     LET key == firstKeyWithinTwo(applyAlias(normalize(u)))
                         record == knownProfiles(key)
                     IN /\ body.exists = TRUE
                        /\ \A f \in DOMAIN record :
                               f \in DOMAIN body.profile /\ body.profile[f] = record[f]
                        /\ body.profile.username = key
                        /\ hasNote
                        /\ Len(body.profile.note) = 5
                        /\ body.profile.note[2] = u
                        /\ body.profile.note[4] = record.name
               /\ hasNote => isCloseQuery(u)

\* 'bts12', five characters with digits and two edits from 'bts', has been
\* answered with the record of BTS.
C7_Witness ==
    \E q \in Queries :
        /\ done(q)
        /\ platform[q] = "spotify"
        /\ reqUsername[q] = <<"b", "t", "s", "1", "2">>
        /\ response(q).body.profile.username = <<"b", "t", "s">>
        /\ "note" \in DOMAIN response(q).body.profile

----------------------------------------------------------------------------
(* C8.                                                                     *)

\* C8: a Spotify query whose normalized form is a key of the dataset is
\* answered exists: true with every field of the key's record as the
\* dataset has it, with no simulated, scraped or note field, and with
\* nothing else than the username and the URL the key alone decides: the
\* response is the same for every spelling of the key, every time and
\* whatever the random source gives.
C8_ExactMatch ==
    \A q \in Queries :
        (done(q) /\ platform[q] = "spotify" /\ isKnownKey(normalize(reqUsername[q]))) =>
            LET key == normalize(reqUsername[q])
                record == knownProfiles(key)
                canonical == IF key = weeknd THEN theweeknd ELSE key
                body == response(q).body
            IN /\ DOMAIN body = {"exists", "profile"}
               /\ body.exists = TRUE
               /\ \A f \in DOMAIN record :
                      f \in DOMAIN body.profile /\ body.profile[f] = record[f]
               /\ DOMAIN body.profile = DOMAIN record \cup {"username", "external_url"}
               /\ body.profile.username = canonical
               /\ body.profile.external_url =
                      << "https://open.spotify.com/",
                         IF record.type = "account" THEN "user" ELSE "artist",
                         "/", canonical >>
               /\ key = <<"d", "r", "a", "k", "e">> =>
                      body.profile.name = <<"D", "r", "a", "k", "e">>

\* 'dr ake' has been answered with the record of Drake.
C8_Witness ==
    \E q \in Queries :
        /\ done(q)
        /\ platform[q] = "spotify"
        /\ reqUsername[q] = <<"d", "r", " ", "a", "k", "e">>
        /\ response(q).body.profile.name = <<"D", "r", "a", "k", "e">>

----------------------------------------------------------------------------
(* C9.                                                                     *)

\* The characters the claim's "whitespace" covers.
hasWhitespace(u) == \E i \in 1..Len(u) : IsWhitespace(u[i])

\* The body is a synthetic profile of the given type.
isSynthetic(body, type) ==
    /\ body.exists = TRUE
    /\ {"simulated", "type"} \subseteq DOMAIN body.profile
    /\ body.profile.simulated = TRUE
    /\ body.profile.type = type

\* C9: a Spotify query with no exact key and no key within edit distance 2
\* is answered with the synthetic artist when it is longer than 3 and has no
\* run of three digits; otherwise with the synthetic listener when it is at
\* least 3 long and has no whitespace; otherwise with exists: false.
C9_SyntheticDispatch ==
    \A q \in Queries :
        LET u == reqUsername[q]
            name == applyAlias(normalize(u))
            body == response(q).body
        IN ( /\ done(q)
             /\ platform[q] = "spotify"
             /\ ~isKnownKey(name)
             /\ keysWithinTwo(name) = {} ) =>
                IF Len(u) > 3 /\ ~matchesThreeDigits(u)
                THEN isSynthetic(body, "artist")
                ELSE IF Len(u) >= 3 /\ ~hasWhitespace(u)
                THEN isSynthetic(body, "user")
                ELSE body.exists = FALSE

----------------------------------------------------------------------------
(* C10.                                                                    *)

\* C10: the values compareDistance returned are symmetric, zero for a string
\* and itself, and zero for no two different strings.
C10_DistanceSymmetricAndZeroIffEqual ==
    \A pair \in DOMAIN distance :
        /\ <<pair[2], pair[1]>> \in DOMAIN distance =>
              distance[pair] = distance[<<pair[2], pair[1]>>]
        /\ pair[1] = pair[2] => distance[pair] = 0
        /\ distance[pair] = 0 => pair[1] = pair[2]

\* Two different strings of different lengths, the shorter first, have been
\* compared in both orders, next to each with itself.
C10_Witness ==
    /\ Len(s1) < Len(s2)
    /\ Len(s1) > 0
    /\ DOMAIN distance = {<<s1, s1>>, <<s1, s2>>, <<s2, s1>>, <<s2, s2>>}
    /\ distance[<<s1, s2>>] = 2
    /\ distance[<<s2, s1>>] = 2

----------------------------------------------------------------------------
(* C11.                                                                    *)

\* The classic edit distance, by its recurrence on the first characters:
\* the fewest single-character insertions, deletions and substitutions that
\* turn a into b.
RECURSIVE levenshtein(_, _)
levenshtein(a, b) ==
    IF Len(a) = 0 THEN Len(b)
    ELSE IF Len(b) = 0 THEN Len(a)
    ELSE IF a[1] = b[1] THEN levenshtein(Tail(a), Tail(b))
    ELSE LET deleted == levenshtein(Tail(a), b)
             inserted == levenshtein(a, Tail(b))
             substituted == levenshtein(Tail(a), Tail(b))
             least == IF deleted <= inserted THEN deleted ELSE inserted
         IN 1 + (IF least <= substituted THEN least ELSE substituted)

\* C11: every value compareDistance returned is the classic edit distance
\* of its two arguments, an empty argument and a shorter first argument
\* included.
C11_DistanceIsLevenshtein ==
    \A pair \in DOMAIN distance : distance[pair] = levenshtein(pair[1], pair[2])

\* The distance from a one-character string to a string of three other
\* characters has been computed, the shorter string first.
C11_Witness ==
    /\ Len(s1) = 1
    /\ Len(s2) = 3
    /\ \A i \in 1..3 : s2[i] # s1[1]
    /\ <<s1, s2>> \in DOMAIN distance
    /\ distance[<<s1, s2>>] = 3
    /\ <<s2, s1>> \in DOMAIN distance

----------------------------------------------------------------------------
(* C12.                                                                    *)

\* The position of a key in the dataset.
keyPosition(key) == CHOOSE i \in 1..Len(knownProfileKeys) : knownProfileKeys[i] = key

\* C12: the close-match list of a Spotify query holds a dataset key iff the
\* key is within edit distance 2 of the normalized query, in the order of
\* the dataset; when the list is not empty the answer is the record of its
\* first key, whatever the distances of the keys after it.
C12_CloseMatchList ==
    \A q \in Queries :
        (done(q) /\ platform[q] = "spotify" /\ "closeMatches" \in DOMAIN locals[q]) =>
            LET list == locals[q].closeMatches
                name == applyAlias(normalize(reqUsername[q]))
                profile == response(q).body.profile
            IN /\ \A i \in 1..Len(knownProfileKeys) :
                      (\E j \in 1..Len(list) : list[j] = knownProfileKeys[i])
                          <=> compareDistance(name, knownProfileKeys[i]) <= 2
               /\ \A j \in 1..Len(list) : isKnownKey(list[j])
               /\ \A j, k \in 1..Len(list) :
                      j < k => keyPosition(list[j]) < keyPosition(list[k])
               /\ Len(list) > 0 =>
                      /\ profile.username = list[1]
                      /\ \A f \in DOMAIN knownProfiles(list[1]) :
                             profile[f] = knownProfiles(list[1])[f]

\* 'heweeknd' is two edits from 'weeknd' and one from 'theweeknd', which
\* comes later in the dataset: it has been answered as 'weeknd'.
C12_Witness ==
    \E q \in Queries :
        /\ done(q)
        /\ platform[q] = "spotify"
        /\ reqUsername[q] = <<"h", "e", "w", "e", "e", "k", "n", "d">>
        /\ locals[q].closeMatches = <<weeknd, theweeknd>>
        /\ compareDistance(reqUsername[q], theweeknd) < compareDistance(reqUsername[q], weeknd)
        /\ response(q).body.profile.username = weeknd

----------------------------------------------------------------------------
(* C13.                                                                    *)

\* The handler of q has answered with a synthetic artist.
answeredSyntheticArtist(q) ==
    /\ done(q)
    /\ platform[q] = "spotify"
    /\ isSynthetic(response(q).body, "artist")

\* C13: a synthetic artist has exactly 5 top tracks, and the album of each
\* is the name of one of the albums of the same profile.
C13_TopTracksOfOwnAlbums ==
    \A q \in Queries :
        answeredSyntheticArtist(q) =>
            LET profile == response(q).body.profile
            IN /\ Len(profile.top_tracks) = 5
               /\ \A t \in 1..Len(profile.top_tracks) :
                      \E a \in 1..Len(profile.albums) :
                          profile.albums[a].name = profile.top_tracks[t].album

\* A synthetic artist with three albums of three different names, each with
\* a track among the top tracks.
C13_Witness ==
    \E q \in Queries :
        /\ answeredSyntheticArtist(q)
        /\ Len(response(q).body.profile.albums) = 3
        /\ \A a, b \in 1..3 :
               a # b => response(q).body.profile.albums[a].name
                            # response(q).body.profile.albums[b].name
        /\ \A a \in 1..3 : \E t \in 1..5 :
               response(q).body.profile.top_tracks[t].album
                   = response(q).body.profile.albums[a].name

----------------------------------------------------------------------------
(* C14.                                                                    *)

\* C14: the genres of a synthetic artist are between 2 and 4 tags, pairwise
\* distinct, all of one themed pool.
C14_GenresTwoToFour ==
    \A q \in Queries :
        answeredSyntheticArtist(q) =>
            LET genres == response(q).body.profile.genres
            IN /\ Len(genres) >= 2
               /\ Len(genres) <= 4
               /\ \A i, j \in 1..Len(genres) : i # j => genres[i] # genres[j]
               /\ \E p \in 1..Len(genrePools) :
                      \A i \in 1..Len(genres) : listIncludes(genrePools[p], genres[i])

----------------------------------------------------------------------------
(* C15.                                                                    *)

\* C15: a synthetic artist has 2 or 3 albums, the most recent first, each
\* released in the calendar year before the one listed before it.
C15_AlbumsYearByYear ==
    \A q \in Queries :
        answeredSyntheticArtist(q) =>
            LET albums == response(q).body.profile.albums
            IN /\ Len(albums) \in {2, 3}
               /\ \A i \in 1..(Len(albums) - 1) :
                      albums[i].release_date.year = albums[i + 1].release_date.year + 1

\* A synthetic artist with three albums, of three years.
C15_Witness ==
    \E q \in Queries :
        /\ answeredSyntheticArtist(q)
        /\ Len(response(q).body.profile.albums) = 3
        /\ response(q).body.profile.albums[1].release_date.year
               = response(q).body.profile.albums[3].release_date.year + 2

----------------------------------------------------------------------------
(* C16.                                                                    *)

\* The profile carries the marker of the given name, set.
hasMarker(profile, marker) == marker \in DOMAIN profile /\ profile[marker] = TRUE

\* The query was answered from the response of its live request.
answeredFromLive(q) ==
    /\ done(q)
    /\ platform[q] \in NetworkPlatforms
    /\ path[q] = <<"ATTEMPT_LIVE", "SUCCESS">>

\* The query was answered with a profile the handler made up.
answeredFabricated(q) ==
    /\ done(q)
    /\ response(q).status = 200
    /\ response(q).body.exists = TRUE
    /\ \/ usedFallback(q)
       \/ platform[q] = "spotify" /\ path[q][1] \in {"artist", "listener"}

\* C16: a profile returned with exists: true tells its origin: one taken
\* from a live API response is marked real, one taken from a fetched page is
\* marked scraped, one the handler made up is marked simulated.
C16_ProvenanceMarker ==
    \A q \in Queries :
        /\ answeredFromLive(q) =>
              IF platform[q] \in {"twitter", "instagram", "tiktok"}
              THEN hasMarker(response(q).body.profile, "scraped")
              ELSE \/ hasMarker(response(q).body.profile, "real")
                   \/ hasMarker(response(q).body.profile, "real_api")
        /\ answeredFabricated(q) => hasMarker(response(q).body.profile, "simulated")

----------------------------------------------------------------------------
(* C17.                                                                    *)

\* Everything the model keeps of one query.
slot(q) == <<pc[q], platform[q], reqUsername[q], requests[q], path[q], sent[q], locals[q]>>

\* What the handler of platform p answers to username u when its requests
\* settle as in issuedRequests and its draws come from src, with no other
\* query around: the response and the resolution states.
resolvedAlone(p, u, issuedRequests, src) ==
    LET first == issuedRequests[1].outcome
        result ==
            CASE p = "github" ->
                     IF first.kind = "ok"
                     THEN githubAfterRepos(first.data, issuedRequests[2].outcome)
                     ELSE githubCatch(first)
              [] p = "twitter" -> twitterAfterLive(src, u, first)
              [] p = "instagram" -> instagramAfterLive(src, u, first)
              [] p = "linkedin" -> linkedinAfterLive(src, u, first)
              [] p = "reddit" -> redditAfterLive(src, u, first)
              [] p = "tiktok" -> tiktokAfterLive(src, u, first)
    IN IF p = "spotify"
       THEN [ sent |-> <<[status |-> 200, body |-> spotifyResolve(src, u).body]>>,
              path |-> << spotifyResolve(src, u).branch,
                          IF spotifyResolve(src, u).body.exists
                          THEN "SUCCESS" ELSE "NOT_FOUND" >> ]
       ELSE [ sent |-> <<[status |-> result.status, body |-> result.body]>>,
              path |-> <<"ATTEMPT_LIVE">> \o result.states ]

\* The next step of the handler of q, whatever it is.
stepOf(q) ==
    \/ \E u \in ConcurrentUsernames :
           \/ GithubRequest(q, u) \/ TwitterRequest(q, u) \/ InstagramRequest(q, u)
           \/ LinkedinRequest(q, u) \/ RedditRequest(q, u) \/ TiktokRequest(q, u)
    \/ \E outcome \in liveErrors : GithubUserReturned(q, outcome)
    \/ \E outcome \in liveErrors : GithubReposReturned(q, outcome)
    \/ \E outcome \in liveErrors, src \in ConcurrentSources :
           \/ TwitterReturned(q, outcome, src) \/ InstagramReturned(q, outcome, src)
           \/ LinkedinReturned(q, outcome, src) \/ RedditReturned(q, outcome, src)
           \/ TiktokReturned(q, outcome, src)
    \/ Close(q)

\* A query answered as it would be alone, a query in flight with its own
\* request out, and every query free to take its next step.
independentOfOthers ==
    \A q \in DOMAIN pc :
        /\ done(q) =>
              \E src \in ConcurrentSources :
                  LET alone == resolvedAlone(platform[q], reqUsername[q], requests[q], src)
                  IN sent[q] = alone.sent /\ path[q] = alone.path
        /\ pc[q] = "live" =>
              /\ Len(requests[q]) = 1
              /\ requests[q][1].outcome = pending
              /\ sent[q] = <<>>
        /\ ENABLED stepOf(q)

\* A step of one query leaves everything of the other queries as it was.
stepsOfOneQuery ==
    \A q \in DOMAIN pc :
        slot(q)' # slot(q) => \A r \in DOMAIN pc \ {q} : slot(r)' = slot(r)

----------------------------------------------------------------------------
(* C18.                                                                    *)

\* C18: a Spotify query that normalizes to 'weeknd' is answered by the
\* exact lookup of 'theweeknd': its response is the response to the query
\* 'theweeknd', with the fields of that record, 'theweeknd' as username and
\* in the URL, and no note.
C18_AliasAnswersAsCanonical ==
    \A q \in Queries :
        (done(q) /\ platform[q] = "spotify" /\ normalize(reqUsername[q]) = weeknd) =>
            LET body == response(q).body
            IN /\ path[q] = <<"exact", "SUCCESS">>
               /\ \A src \in RandomSources : body = spotifyResolve(src, theweeknd).body
               /\ body.exists = TRUE
               /\ body.profile.username = theweeknd
               /\ body.profile.external_url
                      = <<"https://open.spotify.com/", "artist", "/", theweeknd>>
               /\ \A f \in DOMAIN knownProfiles(theweeknd) :
                      body.profile[f] = knownProfiles(theweeknd)[f]
               /\ "note" \notin DOMAIN body.profile

\* The query 'weeknd' has been answered under the username 'theweeknd'.
C18_Witness ==
    \E q \in Queries :
        /\ done(q)
        /\ platform[q] = "spotify"
        /\ reqUsername[q] = weeknd
        /\ response(q).body.profile.username = theweeknd

----------------------------------------------------------------------------
(* C19.                                                                    *)

\* Every request of the query succeeded and the response describes a
\* profile: both GitHub requests answered, the second with a list, a Nitter
\* page without error panel, an Instagram page, a LinkedIn answer, a Reddit
\* payload with its data object, a TikTok page whose og:title holds the
\* handle.
liveDescribesProfile(q) ==
    \/ /\ platform[q] = "github"
       /\ Len(requests[q]) = 2
       /\ requests[q][1].outcome.kind = "ok" /\ requests[q][2].outcome.kind = "ok"
       /\ requests[q][2].outcome.data.isArray
    \/ liveAnswered(q, "twitter") /\ ~requests[q][1].outcome.data.errorPanel
    \/ liveAnswered(q, "instagram")
    \/ liveAnswered(q, "linkedin")
    \/ /\ liveAnswered(q, "reddit")
       /\ requests[q][1].outcome.data.hasBody /\ requests[q][1].outcome.data.hasData
    \/ /\ liveAnswered(q, "tiktok")
       /\ requests[q][1].outcome.data.hasTitle /\ requests[q][1].outcome.data.titleHasHandle

\* C19: a query whose live request succeeded with a response describing a
\* profile goes from ATTEMPT_LIVE directly to SUCCESS and answers the profile
\* read from the response, marked scraped or real and not simulated, without
\* entering the fallback step.
C19_LiveSuccessAnswersFromLive ==
    \A q \in Queries :
        (done(q) /\ liveDescribesProfile(q)) =>
            /\ path[q] = <<"ATTEMPT_LIVE", "SUCCESS">>
            /\ ~usedFallback(q)
            /\ response(q).status = 200
            /\ response(q).body.exists = TRUE
            /\ \/ hasMarker(response(q).body.profile, "scraped")
               \/ hasMarker(response(q).body.profile, "real")
               \/ hasMarker(response(q).body.profile, "real_api")
            /\ ~hasMarker(response(q).body.profile, "simulated")

----------------------------------------------------------------------------
(* C20.                                                                    *)

\* The response of the one live request of a done query, which succeeded.
liveData(q) == requests[q][1].outcome.data

\* The live request of the query succeeded and its response describes a
\* profile that lacks an optional field.
lacksOptionalField(q, p) ==
    /\ done(q)
    /\ liveAnswered(q, p)
    /\ CASE p = "instagram" -> \/ liveData(q).followers = <<>>
                               \/ liveData(q).posts = <<>>
                               \/ liveData(q).name = <<>>
         [] p = "tiktok" -> /\ liveData(q).hasTitle /\ liveData(q).titleHasHandle
                            /\ liveData(q).followers = <<>> \/ liveData(q).likes = <<>>
         [] p = "twitter" -> ~liveData(q).errorPanel /\ liveData(q).avatar = <<>>
         [] p = "reddit" -> /\ liveData(q).hasBody /\ liveData(q).hasData
                            /\ liveData(q).user.hasCreated
                            /\ ~liveData(q).user.hasSubreddit

\* C20: when the live call succeeded and the response lacks an optional field
\* (Instagram follower count, post count or name, TikTok follower or like
\* count, Twitter avatar, Reddit description), the profile answered holds zero
\* for a missing count and the empty text for a missing text, the fields the
\* response does give are answered as read, and the resolution ends in
\* SUCCESS from the live branch.
C20_MissingFieldDefaults ==
    \A q \in Queries :
        /\ \A p \in {"instagram", "tiktok", "twitter", "reddit"} :
              lacksOptionalField(q, p) =>
                  /\ path[q] = <<"ATTEMPT_LIVE", "SUCCESS">>
                  /\ response(q).status = 200
                  /\ response(q).body.exists = TRUE
        /\ lacksOptionalField(q, "instagram") =>
              LET profile == response(q).body.profile
              IN /\ profile.followers = IF liveData(q).followers = <<>> THEN 0
                                        ELSE parseCount(liveData(q).followers)
                 /\ profile.posts = IF liveData(q).posts = <<>> THEN 0
                                    ELSE parseCount(liveData(q).posts)
                 /\ profile.name = liveData(q).name
        /\ lacksOptionalField(q, "tiktok") =>
              LET profile == response(q).body.profile
              IN /\ profile.followers = IF liveData(q).followers = <<>> THEN 0
                                        ELSE expandCount(liveData(q).followers)
                 /\ profile.likes = IF liveData(q).likes = <<>> THEN 0
                                    ELSE expandCount(liveData(q).likes)
                 /\ profile.name = liveData(q).displayName
        /\ lacksOptionalField(q, "twitter") =>
              LET profile == response(q).body.profile
              IN /\ profile.avatar_url = <<>>
                 /\ profile.name = liveData(q).fullname
                 /\ profile.followers = expandCount(liveData(q).stats[3])
        /\ lacksOptionalField(q, "reddit") =>
              LET profile == response(q).body.profile
              IN /\ profile.description = ""
                 /\ profile.username = liveData(q).user.name
                 /\ profile.link_karma = liveData(q).user.link_karma

----------------------------------------------------------------------------
(* C21.                                                                    *)

\* The handler of q is under way: it has been called and has not answered.
underWay(q) == pc[q] \notin {"idle", "done"}

\* The outcome the response of a done query tells: SUCCESS, NOT_FOUND or
\* the internal fault answered with HTTP 500.
outcomeOf(q) ==
    IF response(q).status = 500 /\ DOMAIN response(q).body = {"error"} THEN "FAULT"
    ELSE IF response(q).status = 200 /\ "exists" \in DOMAIN response(q).body
    THEN IF response(q).body.exists = TRUE THEN "SUCCESS" ELSE "NOT_FOUND"
    ELSE "NONE"

\* A handler under way has sent nothing; a handler that is done has sent
\* one response, and its outcome is the state its resolution ended in.
oneResponse ==
    \A q \in Queries :
        /\ Len(sent[q]) <= 1
        /\ underWay(q) => sent[q] = <<>>
        /\ done(q) =>
              /\ Len(sent[q]) = 1
              /\ outcomeOf(q) \in {"SUCCESS", "NOT_FOUND", "FAULT"}
              /\ path[q][Len(path[q])] = outcomeOf(q)

\* A handler that is done sends nothing more and issues no request: the
\* only step left to its slot is the end of the invocation.
stopsAfterResponse ==
    \A q \in Queries :
        done(q) =>
            \/ sent'[q] = sent[q] /\ requests'[q] = requests[q] /\ pc'[q] = "done"
            \/ sent'[q] = <<>> /\ requests'[q] = <<>> /\ pc'[q] = "idle"

\* C21: when every live request settles, every query that was started
\* comes to send a response; it sends exactly one, with the outcome SUCCESS,
\* NOT_FOUND or the HTTP 500 fault, and nothing after it.
C21_ExactlyOneResponse ==
    /\ []oneResponse
    /\ [][stopsAfterResponse]_vars
    /\ \A q \in Queries : underWay(q) ~> done(q)

\* A query that was suspended on a request has come to its one response
\* after the request settled.
C21_Witness ==
    \E q \in Queries :
        /\ done(q)
        /\ platform[q] \in NetworkPlatforms
        /\ requests[q] # <<>>
        /\ requests[q][Len(requests[q])].outcome.kind # "pending"
        /\ Len(sent[q]) = 1

====
